---------------------------- MODULE Spec2Model ----------------------------
(***************************************************************************)
(* A model of microlens-utils' frame-conversion core                       *)
(* (src/microlens_utils/frames): the parallax-vector converter, the        *)
(* trajectory converter and the rotation helpers.                          *)
(*                                                                         *)
(* Floating-point values are modelled as exact rationals extended with the *)
(* IEEE special values NaN, +Inf and -Inf.  A finite value is the record   *)
(* [t |-> "fin", n, d, k] and stands for (n/d) * AU_PER_DAY_TO_KM_S^k:     *)
(* the unit constant 1731.45683 is kept symbolic, so that velocities in    *)
(* km/s stay inside TLC's integers.  A finite value the exact arithmetic   *)
(* cannot represent (an irrational square root, a sum of different powers  *)
(* of the constant) is the value Irr; the initial states carry only inputs *)
(* on which the functions never produce it.  Zeros carry no sign, and      *)
(* rounding, overflow and underflow of the finite values are not modelled. *)
(***************************************************************************)
EXTENDS Integers, Sequences, FiniteSets, TLC

(***************************************************************************)
(* Exact arithmetic                                                        *)
(***************************************************************************)
AbsInt(a) == IF a < 0 THEN -a ELSE a

RECURSIVE Gcd(_, _)
Gcd(a, b) == IF b = 0 THEN a ELSE Gcd(b, a % b)

RECURSIVE SqrtSearch(_, _, _)
SqrtSearch(m, lo, hi) ==
    IF lo >= hi THEN lo
    ELSE LET mid == (lo + hi + 1) \div 2
         IN  IF mid * mid <= m THEN SqrtSearch(m, mid, hi)
             ELSE SqrtSearch(m, lo, mid - 1)

\* floor of the square root of m, 0 <= m < 2^31
ISqrt(m) == SqrtSearch(m, 0, IF m < 46340 THEN m ELSE 46340)

IsSquare(m) == ISqrt(m) * ISqrt(m) = m

NaN == [t |-> "nan", n |-> 0, d |-> 1, k |-> 0]
PInf == [t |-> "inf", n |-> 1, d |-> 1, k |-> 0]
NInf == [t |-> "inf", n |-> -1, d |-> 1, k |-> 0]
Irr == [t |-> "irr", n |-> 0, d |-> 1, k |-> 0]

\* the finite value (a/b) * AU_PER_DAY_TO_KM_S^k in lowest terms, b # 0
Fin(a, b, k) ==
    IF a = 0 THEN [t |-> "fin", n |-> 0, d |-> 1, k |-> 0]
    ELSE LET g == Gcd(AbsInt(a), AbsInt(b))
             s == IF b < 0 THEN -1 ELSE 1
         IN  [t |-> "fin", n |-> s * (a \div g), d |-> s * (b \div g), k |-> k]

Rat(a, b) == Fin(a, b, 0)
Zero == Rat(0, 1)
One == Rat(1, 1)

IsFin(x) == x.t = "fin"
IsIrr(x) == x.t = "irr"
\* np.isnan
IsNaN(x) == x.t = "nan"
\* np.isfinite
IsFinite(x) == x.t \in {"fin", "irr"}
IsInf(x) == x.t = "inf"
SgnInt(x) == IF x.n > 0 THEN 1 ELSE IF x.n < 0 THEN -1 ELSE 0
\* x == 0.0, x < 0, x > 0 (every comparison with NaN is false)
IsZero(x) == IsFin(x) /\ x.n = 0
IsNeg(x) == x.t \in {"fin", "inf"} /\ x.n < 0
IsPos(x) == x.t \in {"fin", "inf"} /\ x.n > 0
InfOf(s) == IF s < 0 THEN NInf ELSE PInf

Neg(x) == IF IsFin(x) \/ IsInf(x) THEN [x EXCEPT !.n = -x.n] ELSE x

AbsV(x) == IF IsNeg(x) THEN Neg(x) ELSE x

Add(x, y) ==
    IF IsIrr(x) \/ IsIrr(y) THEN Irr
    ELSE IF IsNaN(x) \/ IsNaN(y) THEN NaN
    ELSE IF IsInf(x) /\ IsInf(y) THEN (IF x.n = y.n THEN x ELSE NaN)
    ELSE IF IsInf(x) THEN x
    ELSE IF IsInf(y) THEN y
    ELSE IF x.n = 0 THEN y
    ELSE IF y.n = 0 THEN x
    ELSE IF x.k # y.k THEN Irr
    ELSE LET g == Gcd(x.d, y.d)
         IN  Fin(x.n * (y.d \div g) + y.n * (x.d \div g), (x.d \div g) * y.d, x.k)

Sub(x, y) == Add(x, Neg(y))

Mul(x, y) ==
    IF IsIrr(x) \/ IsIrr(y) THEN Irr
    ELSE IF IsNaN(x) \/ IsNaN(y) THEN NaN
    ELSE IF IsInf(x) \/ IsInf(y)
         THEN (IF x.n = 0 \/ y.n = 0 THEN NaN ELSE InfOf(SgnInt(x) * SgnInt(y)))
    ELSE LET g1 == Gcd(AbsInt(x.n), y.d)
             g2 == Gcd(AbsInt(y.n), x.d)
         IN  IF x.n = 0 \/ y.n = 0 THEN Zero
             ELSE Fin((x.n \div g1) * (y.n \div g2),
                      (x.d \div g2) * (y.d \div g1), x.k + y.k)

\* numpy's float64 division: a zero divisor gives NaN or an infinity, no error
Div(x, y) ==
    IF IsIrr(x) \/ IsIrr(y) THEN Irr
    ELSE IF IsNaN(x) \/ IsNaN(y) THEN NaN
    ELSE IF IsInf(x) THEN (IF IsInf(y) THEN NaN
                           ELSE InfOf(x.n * (IF y.n < 0 THEN -1 ELSE 1)))
    ELSE IF IsInf(y) THEN Zero
    ELSE IF y.n = 0 THEN (IF x.n = 0 THEN NaN ELSE InfOf(x.n))
    ELSE Mul(x, Fin(y.d, y.n, -y.k))

\* np.hypot: an infinite argument gives +Inf, otherwise NaN propagates
Hypot(x, y) ==
    IF IsIrr(x) \/ IsIrr(y) THEN Irr
    ELSE IF IsInf(x) \/ IsInf(y) THEN PInf
    ELSE IF IsNaN(x) \/ IsNaN(y) THEN NaN
    ELSE IF x.n = 0 THEN AbsV(y)
    ELSE IF y.n = 0 THEN AbsV(x)
    ELSE IF x.k # y.k THEN Irr
    ELSE LET g == Gcd(x.d, y.d)
             l == (x.d \div g) * y.d
             a == AbsInt(x.n) * (y.d \div g)
             b == AbsInt(y.n) * (x.d \div g)
             m == a * a + b * b
         IN  IF IsSquare(m) THEN Fin(ISqrt(m), l, x.k) ELSE Irr

\* np.sign
Sign(x) ==
    IF IsIrr(x) \/ IsNaN(x) THEN x
    ELSE IF x.n > 0 THEN One ELSE IF x.n < 0 THEN Neg(One) ELSE Zero


\* 2-vectors <<East, North>> (numpy arrays, element-wise arithmetic)
VAdd(a, b) == <<Add(a[1], b[1]), Add(a[2], b[2])>>
VSub(a, b) == <<Sub(a[1], b[1]), Sub(a[2], b[2])>>
VScale(c, a) == <<Mul(c, a[1]), Mul(c, a[2])>>
VDiv(a, c) == <<Div(a[1], c), Div(a[2], c)>>
VNeg(a) == <<Neg(a[1]), Neg(a[2])>>
\* np.dot
Dot(a, b) == Add(Mul(a[1], b[1]), Mul(a[2], b[2]))

(***************************************************************************)
(* frames/bagle/vectors.py                                                 *)
(***************************************************************************)
\* the unit constant 1731.45683, kept symbolic (the value 1 * K^1)
AU_PER_DAY_TO_KM_S == Fin(1, 1, 1)

\* What a call did: st is "ok" or the exception raised, val the returned
\* tuple (empty when it raised), log the observable steps in order.
Raise(exc, log) == [st |-> exc, val |-> <<>>, log |-> log]
Return(val, log) == [st |-> "ok", val |-> val, log |-> log]

\* earth_projected_velocity: the ephemeris oracle's answer for the call's
\* (ra, dec, mjd), Earth's velocity projected on (East, North), km/s
earth_projected_velocity(eph) == eph.vel

\* parallax_vector at one epoch: Earth's projected position, AU
parallax_vector(eph) == eph.pos

\* lines 129-132: the input frame's relative velocity <<E, N>>, km/s
VtildeInScaled(piEE_in, piEN_in, tE_in, piE2) ==
    <<Mul(Div(piEE_in, Mul(tE_in, piE2)), AU_PER_DAY_TO_KM_S),
      Mul(Div(piEN_in, Mul(tE_in, piE2)), AU_PER_DAY_TO_KM_S)>>

\* lines 128-132, piE the length of the input parallax vector
VtildeIn(piEE_in, piEN_in, tE_in, piE) ==
    VtildeInScaled(piEE_in, piEN_in, tE_in, Mul(piE, piE))

\* lines 135-140: the frame flip
VtildeOutGeoSign(vtilde_in, v_Earth, in_frame) ==
    VSub(VNeg(vtilde_in), v_Earth)

VtildeOut(vtilde_in, v_Earth, in_frame) ==
    IF in_frame = "helio"
    THEN VSub(VNeg(vtilde_in), v_Earth)
    ELSE VAdd(VNeg(vtilde_in), v_Earth)

\* line 148
TEOutRatioInverted(vtilde_in, vtilde_out, tE_in) ==
    Mul(Div(vtilde_out, vtilde_in), tE_in)

TEOut(vtilde_in, vtilde_out, tE_in) ==
    Mul(Div(vtilde_in, vtilde_out), tE_in)

\* lines 144-147: the output parallax vector <<E, N>>
PiEOut(piE, vtildeVec_out, vtilde_out) ==
    <<Mul(piE, Div(Neg(vtildeVec_out[1]), vtilde_out)),
      Mul(piE, Div(Neg(vtildeVec_out[2]), vtilde_out))>>

\* line 149
PiEvecPack(piE_out, tE_out) ==
    Return(<<piE_out[1], piE_out[2], tE_out>>, <<"div_piE", "ephem_vel">>)

\* lines 144-149, from the lengths of the two relative velocities
PiEvecScale(piE, vOut, tE_in, vtilde_in, vtilde_out) ==
    PiEvecPack(PiEOut(piE, vOut, vtilde_out), TEOut(vtilde_in, vtilde_out, tE_in))

\* lines 142-149, from the two relative velocities
PiEvecResult(piE, vIn, vOut, tE_in) ==
    PiEvecScale(piE, vOut, tE_in, Hypot(vIn[1], vIn[2]), Hypot(vOut[1], vOut[2]))

\* lines 134-149, from the input frame's relative velocity
PiEvecFlip(eph, piE, vIn, tE_in, in_frame) ==
    PiEvecResult(piE, vIn, VtildeOut(vIn, earth_projected_velocity(eph), in_frame),
                 tE_in)

\* lines 126-149 with the zero-length test moved behind the divisions
PiEvecChecked_LateCheck(eph, piE, piEE_in, piEN_in, tE_in, in_frame) ==
    IF IsZero(piE)
    THEN Raise("ValueError", <<"div_piE">>)
    ELSE PiEvecFlip(eph, piE, VtildeIn(piEE_in, piEN_in, tE_in, piE), tE_in, in_frame)

\* lines 126-149, piE the length of the input parallax vector
PiEvecChecked(eph, piE, piEE_in, piEN_in, tE_in, in_frame) ==
    IF IsZero(piE)
    THEN Raise("ValueError", <<>>)
    ELSE PiEvecFlip(eph, piE, VtildeIn(piEE_in, piEN_in, tE_in, piE), tE_in, in_frame)

\* convert_piEvec_tE(ra, dec, t0par, piEE_in, piEN_in, tE_in, in_frame);
\* eph is the oracle's answer for (ra, dec, t0par)
convert_piEvec_tE(eph, piEE_in, piEN_in, tE_in, in_frame) ==
    IF in_frame \notin {"helio", "geo"}
    THEN Raise("ValueError", <<>>)
    ELSE PiEvecChecked(eph, Hypot(piEE_in, piEN_in), piEE_in, piEN_in, tE_in,
                       in_frame)

\* The arguments of convert_u0vec_t0 travel as one record c: t0par, t0_in,
\* u0_in, tE_in, tE_out, piE, tauhat_in, u0hat_in, tauhat_out (vectors
\* <<E, N>>) and in_frame.

\* lines 204, 214
DpDt(c) ==
    IF c.in_frame = "helio"
    THEN VDiv(VSub(VDiv(c.tauhat_in, c.tE_in), VDiv(c.tauhat_out, c.tE_out)), c.piE)
    ELSE VDiv(VNeg(VSub(VDiv(c.tauhat_in, c.tE_in), VDiv(c.tauhat_out, c.tE_out))),
              c.piE)

\* lines 205, 215; shift is piE * par_vec
U0Vec(c, u0vec_in, shift) ==
    IF c.in_frame = "helio"
    THEN VSub(VSub(u0vec_in, shift), VScale(Mul(Sub(c.t0_in, c.t0par), c.piE), DpDt(c)))
    ELSE VAdd(VAdd(u0vec_in, shift), VScale(Mul(Sub(c.t0_in, c.t0par), c.piE), DpDt(c)))

\* lines 206, 216
T0Out(c, vec) == Sub(c.t0_in, Mul(c.tE_out, Dot(c.tauhat_out, vec)))

\* lines 207-211, 217-221 before the last term
U0Drift(c, u0vec_in, t0_out) ==
    VSub(VAdd(u0vec_in, VDiv(VScale(Sub(c.t0par, c.t0_in), c.tauhat_in), c.tE_in)),
         VDiv(VScale(Sub(c.t0par, t0_out), c.tauhat_out), c.tE_out))

\* lines 207-212, 217-222
U0VecOut(c, shift, drift) ==
    IF c.in_frame = "helio" THEN VSub(drift, shift) ELSE VAdd(drift, shift)

\* line 226
U0Pack(t0_out, u0vec_out) ==
    Return(<<t0_out, u0vec_out[1], u0vec_out[2]>>, <<"ephem_pos">>)

\* lines 207-226, from the output peak time
U0FromPeak(c, u0vec_in, shift, t0_out) ==
    U0Pack(t0_out, U0VecOut(c, shift, U0Drift(c, u0vec_in, t0_out)))

\* lines 203-226, from the input u0 vector and the parallax shift
U0Shifted(c, u0vec_in, shift) ==
    U0FromPeak(c, u0vec_in, shift, T0Out(c, U0Vec(c, u0vec_in, shift)))

\* convert_u0vec_t0: returns <<t0_out, u0vec_out[E], u0vec_out[N]>>; the
\* ephemeris is queried (line 196) before in_frame is looked at
convert_u0vec_t0(eph, c) ==
    IF c.in_frame \in {"helio", "geo"}
    THEN U0Shifted(c, VScale(AbsV(c.u0_in), c.u0hat_in),
                   VScale(c.piE, parallax_vector(eph)))
    ELSE Raise("ValueError", <<"ephem_pos">>)

(***************************************************************************)
(* frames/bagle/helio_geo.py                                               *)
(***************************************************************************)
FrameNames == {"helio", "geo"}
CoordNames == {"EN", "tb"}
MuRelNames == {"SL", "LS"}

\* _check_convert_inputs without the enum tests
check_convert_inputs_NoEnums(a) ==
    IF \E v \in {a.t0, a.u0, a.tE, a.piEE, a.piEN} : IsNaN(v)
    THEN "ValueError"
    ELSE "ok"

\* _check_convert_inputs: "ok", or the exception it raises
check_convert_inputs(a) ==
    IF a.in_frame \notin FrameNames THEN "ValueError"
    ELSE IF a.coord_in \notin CoordNames \/ a.coord_out \notin CoordNames
         THEN "ValueError"
    ELSE IF a.murel_in \notin MuRelNames \/ a.murel_out \notin MuRelNames
         THEN "ValueError"
    ELSE IF \E v \in {a.t0, a.u0, a.tE, a.piEE, a.piEN} : IsNaN(v)
         THEN "ValueError"
    ELSE "ok"

\* lines 120-141 with the two rotations of the "EN" branch exchanged
U0hatIn_Mirrored(coord_in, u0_in, piEE_in, piEN_in, tauhat_in) ==
    IF coord_in = "EN" /\ IsNeg(Sign(Mul(u0_in, piEN_in)))
    THEN <<tauhat_in[2], Neg(tauhat_in[1])>>
    ELSE IF coord_in = "EN" \/ ~IsPos(Sign(u0_in))
    THEN <<Neg(tauhat_in[2]), tauhat_in[1]>>
    ELSE <<tauhat_in[2], Neg(tauhat_in[1])>>

\* lines 120-141 without the tie-break of lines 128-134
U0hatIn_NoTie(coord_in, u0_in, piEE_in, piEN_in, tauhat_in) ==
    IF coord_in = "EN"
    THEN IF IsNeg(Sign(Mul(u0_in, piEN_in)))
         THEN <<Neg(tauhat_in[2]), tauhat_in[1]>>
         ELSE <<tauhat_in[2], Neg(tauhat_in[1])>>
    ELSE IF IsPos(Sign(u0_in)) THEN <<tauhat_in[2], Neg(tauhat_in[1])>>
         ELSE <<Neg(tauhat_in[2]), tauhat_in[1]>>

\* lines 120-141: the unit vector of the input impact parameter
U0hatIn(coord_in, u0_in, piEE_in, piEN_in, tauhat_in) ==
    LET plus == <<Neg(tauhat_in[2]), tauhat_in[1]>>
        minus == <<tauhat_in[2], Neg(tauhat_in[1])>>
    IN  IF coord_in = "EN"
        THEN LET sign_term == Sign(Mul(u0_in, piEN_in))
             IN  IF IsNeg(sign_term) THEN plus
                 ELSE IF IsPos(sign_term) THEN minus
                 ELSE IF IsPos(Sign(Mul(u0_in, piEE_in))) THEN plus
                 ELSE minus
        ELSE IF IsPos(Sign(u0_in)) THEN minus ELSE plus

\* lines 161-169 with the East-component rule for both conventions
U0Out_EastOnly(coord_out, tauhat_out, u0vec_out) ==
    IF IsNeg(u0vec_out[1]) THEN Neg(Hypot(u0vec_out[1], u0vec_out[2]))
    ELSE Hypot(u0vec_out[1], u0vec_out[2])

\* lines 161-169: the signed output impact parameter
U0Signed(norm, negative) == IF negative THEN Neg(norm) ELSE norm

U0Out(coord_out, tauhat_out, u0vec_out) ==
    U0Signed(Hypot(u0vec_out[1], u0vec_out[2]),
             IF coord_out = "tb"
             THEN IsNeg(Sign(Sub(Mul(tauhat_out[1], u0vec_out[2]),
                                 Mul(tauhat_out[2], u0vec_out[1]))))
             ELSE IsNeg(u0vec_out[1]))

\* lines 161-175: the returned tuple, from the two converters' results
PhotResult(a, r1, tauhat_out, r2) ==
    IF r2.st # "ok"
    THEN Raise(r2.st, <<"call_piEvec">> \o r1.log \o <<"div_piE", "call_u0vec">>
                      \o r2.log)
    ELSE Return(<<r2.val[1],
                  U0Out(a.coord_out, tauhat_out, <<r2.val[2], r2.val[3]>>),
                  r1.val[3],
                  IF a.murel_out = "LS" THEN Neg(r1.val[1]) ELSE r1.val[1],
                  IF a.murel_out = "LS" THEN Neg(r1.val[2]) ELSE r1.val[2]>>,
                <<"call_piEvec">> \o r1.log \o <<"div_piE", "call_u0vec">> \o r2.log)

\* lines 120-175, from the unit vectors of the two proper motions
PhotUnitVectors(eph, a, piEE_in, piEN_in, r1, piE, tauhat_in, tauhat_out) ==
    PhotResult(a, r1, tauhat_out,
               convert_u0vec_t0(eph,
                   [t0par |-> a.t0par, t0_in |-> a.t0, u0_in |-> a.u0,
                    tE_in |-> a.tE, tE_out |-> r1.val[3], piE |-> piE,
                    tauhat_in |-> tauhat_in,
                    u0hat_in |-> U0hatIn(a.coord_in, a.u0, piEE_in, piEN_in, tauhat_in),
                    tauhat_out |-> tauhat_out, in_frame |-> a.in_frame]))

\* lines 115-175, piE the length of the input parallax vector
PhotTrajectory(eph, a, piEE_in, piEN_in, r1, piE) ==
    PhotUnitVectors(eph, a, piEE_in, piEN_in, r1, piE,
                    <<Div(piEE_in, piE), Div(piEN_in, piE)>>,
                    <<Div(r1.val[1], piE), Div(r1.val[2], piE)>>)

\* lines 114-175; r1 is what convert_piEvec_tE did
PhotAfterPiEvec(eph, a, piEE_in, piEN_in, r1) ==
    IF r1.st # "ok"
    THEN Raise(r1.st, <<"call_piEvec">> \o r1.log)
    ELSE PhotTrajectory(eph, a, piEE_in, piEN_in, r1, Hypot(piEE_in, piEN_in))

\* lines 105-175, for the parallax vector in the source-lens convention
PhotConvert(eph, a, piEE_in, piEN_in) ==
    PhotAfterPiEvec(eph, a, piEE_in, piEN_in,
                    convert_piEvec_tE(eph, piEE_in, piEN_in, a.tE, a.in_frame))

\* lines 85-175 without the negation of lines 100-102
PhotChecked_NoLS(eph, a, status) ==
    IF status # "ok" THEN Raise(status, <<>>)
    ELSE PhotConvert(eph, a, a.piEE, a.piEN)

\* lines 85-175; status is what _check_convert_inputs did
PhotChecked(eph, a, status) ==
    IF status # "ok"
    THEN Raise(status, <<>>)
    ELSE PhotConvert(eph, a,
                     IF a.murel_in = "LS" THEN Neg(a.piEE) ELSE a.piEE,
                     IF a.murel_in = "LS" THEN Neg(a.piEN) ELSE a.piEN)

\* convert_helio_geo_phot(ra, dec, t0_in, u0_in, tE_in, piEE_in, piEN_in,
\* t0par, in_frame, murel_in, murel_out, coord_in, coord_out); a holds the
\* arguments and eph the oracle's answer for (ra, dec, t0par).  Returns
\* <<t0_out, u0_out, tE_out, piEE_out, piEN_out>>.
convert_helio_geo_phot(eph, a) == PhotChecked(eph, a, check_convert_inputs(a))

(***************************************************************************)
(* frames/rotations.py                                                     *)
(*                                                                         *)
(* An angle in degrees is the value [t |-> "deg", n |-> y, d |-> x]: the   *)
(* angle degrees(atan2(y, x)) of the integer vector (x, y), whose cosine   *)
(* and sine are exact when the vector's length is an integer.  Matrices    *)
(* are <<row1, row2>>.                                                     *)
(***************************************************************************)
Deg(y, x) ==
    LET g == Gcd(AbsInt(y), AbsInt(x))
    IN  IF g = 0 THEN [t |-> "deg", n |-> 0, d |-> 1, k |-> 0]
        ELSE [t |-> "deg", n |-> y \div g, d |-> x \div g, k |-> 0]

IsDeg(a) == a.t = "deg"

\* math.cos(math.radians(a)), math.sin(math.radians(a)) for a finite or NaN
CosDeg(a) ==
    IF ~IsDeg(a) THEN a
    ELSE LET m == a.n * a.n + a.d * a.d
         IN  IF IsSquare(m) THEN Rat(a.d, ISqrt(m)) ELSE Irr

SinDeg(a) ==
    IF ~IsDeg(a) THEN a
    ELSE LET m == a.n * a.n + a.d * a.d
         IN  IF IsSquare(m) THEN Rat(a.n, ISqrt(m)) ELSE Irr

\* math.degrees(math.atan2(y, x)) for finite or NaN y, x
Atan2Deg(y, x) ==
    IF IsIrr(y) \/ IsIrr(x) THEN Irr
    ELSE IF ~IsFin(y) \/ ~IsFin(x) THEN NaN
    ELSE IF y.n # 0 /\ x.n # 0 /\ y.k # x.k THEN Irr
    ELSE LET g == Gcd(y.d, x.d)
         IN  Deg(y.n * (x.d \div g), x.n * (y.d \div g))

MatMul(A, B) ==
    <<<<Add(Mul(A[1][1], B[1][1]), Mul(A[1][2], B[2][1])),
        Add(Mul(A[1][1], B[1][2]), Mul(A[1][2], B[2][2]))>>,
      <<Add(Mul(A[2][1], B[1][1]), Mul(A[2][2], B[2][1])),
        Add(Mul(A[2][1], B[1][2]), Mul(A[2][2], B[2][2]))>>>>

Transpose(A) == <<<<A[1][1], A[2][1]>>, <<A[1][2], A[2][2]>>>>

MatVec(A, v) == <<Dot(A[1], v), Dot(A[2], v)>>

Eye2 == <<<<One, Zero>>, <<Zero, One>>>>

MatEntries(A) == {A[1][1], A[1][2], A[2][1], A[2][2]}

\* np.linalg.inv of a 2x2 matrix: LinAlgError when it is exactly singular
AdjugateOver(A, det) ==
    IF IsZero(det)
    THEN Raise("LinAlgError", <<>>)
    ELSE Return(<<<<Div(A[2][2], det), Div(Neg(A[1][2]), det)>>,
                  <<Div(Neg(A[2][1]), det), Div(A[1][1], det)>>>>, <<>>)

LinalgInv(A) == AdjugateOver(A, Sub(Mul(A[1][1], A[2][2]), Mul(A[1][2], A[2][1])))

\* np.allclose's tolerances: atol = 1e-10 = 1 / (AtolRoot * AtolRoot), and
\* numpy's default rtol = 1e-5 = 1 / RtolInv
AtolRoot == 100000
RtolInv == 100000

\* |x - e| <= atol + rtol * |e| for an entry e (0 or 1) of np.eye(2)
CloseToEye(x, e) ==
    LET diff == AbsV(Sub(x, e))
    IN  /\ IsFin(diff)
        /\ diff.k = 0
        /\ diff.n * AtolRoot
             <= (diff.d \div AtolRoot) + (IF e = One THEN (AtolRoot \div RtolInv) * diff.d ELSE 0)

\* np.allclose(M, np.eye(2), atol=1e-10)
AllCloseEye(M) ==
    /\ CloseToEye(M[1][1], One) /\ CloseToEye(M[1][2], Zero)
    /\ CloseToEye(M[2][1], Zero) /\ CloseToEye(M[2][2], One)

\* rotation_xy_to_tu: math.cos raises ValueError on an infinite angle
rotation_xy_to_tu(alpha_deg, sgn) ==
    IF IsInf(alpha_deg)
    THEN Raise("ValueError", <<>>)
    ELSE LET ca == CosDeg(alpha_deg)
             sa == SinDeg(alpha_deg)
         IN  Return(<<<<ca, sa>>, <<Mul(Neg(sgn), sa), Mul(sgn, ca)>>>>, <<>>)

\* rotation_tu_to_xy without the inversion
rotation_tu_to_xy_NoInverse(alpha_deg, sgn) == rotation_xy_to_tu(alpha_deg, sgn)

\* line 25: np.linalg.inv of what rotation_xy_to_tu returned
InverseOf(r) == IF r.st # "ok" THEN r ELSE LinalgInv(r.val)

\* rotation_tu_to_xy
rotation_tu_to_xy(alpha_deg, sgn) == InverseOf(rotation_xy_to_tu(alpha_deg, sgn))

\* hat_u_ne with the minus sign of its first component lost
HatU_NoMinus(hat_t_ne, sgn) == <<Mul(sgn, hat_t_ne[2]), Mul(sgn, hat_t_ne[1])>>

\* line 47: the unit vector perpendicular to hat_t_ne, (N, E) order
HatU(hat_t_ne, sgn) == <<Mul(Neg(sgn), hat_t_ne[2]), Mul(sgn, hat_t_ne[1])>>

\* lines 51-60: the orthonormality test and the diagnostics
RotationChecked(mu_rel_E, mu_rel_N, alpha_deg, R) ==
    IF ~AllCloseEye(MatMul(R, Transpose(R)))
    THEN Raise("RuntimeError_not_orthonormal", <<>>)
    ELSE Return(<<R, [phi_mu_deg |-> Atan2Deg(mu_rel_E, mu_rel_N),
                      alpha_deg |-> alpha_deg,
                      phi_est_deg |-> Atan2Deg(R[1][2], R[1][1])]>>, <<>>)

\* lines 48-60
RotationComposed(mu_rel_E, mu_rel_N, alpha_deg, sgn, hat_t_ne, hat_u_ne) ==
    RotationChecked(mu_rel_E, mu_rel_N, alpha_deg,
        MatMul(<<<<hat_t_ne[1], hat_u_ne[1]>>, <<hat_t_ne[2], hat_u_ne[2]>>>>,
               rotation_xy_to_tu(alpha_deg, sgn).val))

\* lines 47-60
RotationResult(mu_rel_E, mu_rel_N, alpha_deg, sgn, hat_t_ne) ==
    RotationComposed(mu_rel_E, mu_rel_N, alpha_deg, sgn, hat_t_ne, HatU(hat_t_ne, sgn))

\* lines 43-60, mu_norm the length of the proper motion
RotationNormed(mu_rel_E, mu_rel_N, alpha_deg, sgn, mu_norm) ==
    IF IsZero(mu_norm)
    THEN Raise("RuntimeError_zero_mu", <<>>)
    ELSE RotationResult(mu_rel_E, mu_rel_N, alpha_deg, sgn,
                        VDiv(<<mu_rel_N, mu_rel_E>>, mu_norm))

\* rotation_xy_to_ne without the zero-vector tests
rotation_xy_to_ne_NoZeroCheck(mu_rel_E, mu_rel_N, alpha_deg, sgn) ==
    IF ~(IsFinite(mu_rel_E) /\ IsFinite(mu_rel_N))
    THEN Raise("RuntimeError_nonfinite_mu", <<>>)
    ELSE IF ~IsDeg(alpha_deg)
    THEN Raise("RuntimeError_nonfinite_alpha", <<>>)
    ELSE RotationResult(mu_rel_E, mu_rel_N, alpha_deg, sgn,
                        VDiv(<<mu_rel_N, mu_rel_E>>, Hypot(mu_rel_N, mu_rel_E)))

\* rotation_xy_to_ne: returns <<R, diag>>
rotation_xy_to_ne(mu_rel_E, mu_rel_N, alpha_deg, sgn) ==
    IF ~(IsFinite(mu_rel_E) /\ IsFinite(mu_rel_N))
    THEN Raise("RuntimeError_nonfinite_mu", <<>>)
    ELSE IF IsZero(mu_rel_E) /\ IsZero(mu_rel_N)
    THEN Raise("RuntimeError_zero_mu", <<>>)
    ELSE IF ~IsDeg(alpha_deg)
    THEN Raise("RuntimeError_nonfinite_alpha", <<>>)
    ELSE RotationNormed(mu_rel_E, mu_rel_N, alpha_deg, sgn,
                        Hypot(mu_rel_N, mu_rel_E))

\* lines 70-71
NeInversePack(r, inv) ==
    IF inv.st # "ok" THEN inv ELSE Return(<<inv.val, r.val[2]>>, <<>>)

NeInverse(r) == IF r.st # "ok" THEN r ELSE NeInversePack(r, LinalgInv(r.val[1]))

\* rotation_ne_to_xy: returns <<inverse of R, diag>>
rotation_ne_to_xy(mu_rel_E, mu_rel_N, alpha_deg, sgn) ==
    NeInverse(rotation_xy_to_ne(mu_rel_E, mu_rel_N, alpha_deg, sgn))

(***************************************************************************)
(* frames/projections.py                                                   *)
(***************************************************************************)
heliocentric_to_geocentric_piE(eph, piEE, piEN, tE) ==
    convert_piEvec_tE(eph, piEE, piEN, tE, "helio")

geocentric_to_heliocentric_piE(eph, piEE, piEN, tE) ==
    convert_piEvec_tE(eph, piEE, piEN, tE, "geo")

(***************************************************************************)
(* models.py                                                               *)
(*                                                                         *)
(* A dict is a function whose domain is the set of its keys.  A model is   *)
(* the record of a BaseModel's attributes; a TimeSeries is the record of   *)
(* its frame metadata (its epochs and values play no part here).  An       *)
(* exception that carries a message is a result with a msg field.          *)
(***************************************************************************)
EmptyDict == <<>>
Get(d, k, default) == IF k \in DOMAIN d THEN d[k] ELSE default
Put(d, k, v) == [x \in DOMAIN d \cup {k} |-> IF x = k THEN v ELSE d[x]]
None == "None"

RaiseMsg(exc, msg) == [st |-> exc, val |-> <<>>, log |-> <<>>, msg |-> msg]

CANONICAL_SCALARS == {"t0", "tE", "u0_amp", "u0_sign"}

\* BaseModel._validate_scalars without lines 176-177
validate_scalars_NoSign(scalars) ==
    IF ~(CANONICAL_SCALARS \subseteq DOMAIN scalars) THEN "ValueError" ELSE "ok"

\* BaseModel._validate_scalars: "ok", or the exception it raises
validate_scalars(scalars) ==
    IF ~(CANONICAL_SCALARS \subseteq DOMAIN scalars) THEN "ValueError"
    ELSE IF scalars["u0_sign"] \notin {Rat(-1, 1), Rat(1, 1)} THEN "ValueError"
    ELSE "ok"

FrameAttrs == <<"observer", "origin", "rest", "coords", "projection">>

\* BaseModel._coerce_series: TimeSeries(**mapping), absent metadata is None
coerce_series(series) ==
    [a \in {FrameAttrs[i] : i \in DOMAIN FrameAttrs} |-> Get(series, a, None)]

\* BaseModel(scalars=..., meta=..., series=..., frames=..., package_cache=...)
\* with __post_init__: the new model with an empty _piE_cache, or the
\* validation error
BaseModel(scalars, meta, series, frames, package_cache) ==
    IF validate_scalars(scalars) # "ok"
    THEN RaiseMsg(validate_scalars(scalars), "canonical fields")
    ELSE Return([scalars |-> scalars, meta |-> meta,
                 series |-> [name \in DOMAIN series |-> coerce_series(series[name])],
                 frames |-> frames, package_cache |-> package_cache,
                 piE_cache |-> EmptyDict], <<>>)

\* BaseModel.copy: dataclasses.replace builds a new BaseModel
copy(m) == BaseModel(m.scalars, m.meta, m.series, m.frames, m.package_cache)

add_series(m, name, series) ==
    [m EXCEPT !.series = Put(m.series, name, coerce_series(series))]
add_frames(m, name, cfg) == [m EXCEPT !.frames = Put(m.frames, name, cfg)]
cache_package(m, package, payload) ==
    [m EXCEPT !.package_cache = Put(m.package_cache, package, payload)]

\* str.lower on the projection names that are used
Lower(projection) ==
    CASE projection = "Geocentric" -> "geocentric"
      [] projection = "HELIOCENTRIC" -> "heliocentric"
      [] OTHER -> projection

\* BaseModel._piE_components, line 226, with a memo that never answers
memo_lookup_NeverHit(cache, key) == "miss"

\* BaseModel._piE_components, line 226: is the projection in the memo
memo_lookup(cache, key) == IF key \in DOMAIN cache THEN "hit" ELSE "miss"

\* BaseModel._piE_components, line 258, with the assignment left out
memo_store_Lost(cache, key, values) == cache

\* BaseModel._piE_components, line 258: self._piE_cache[projection] = values
memo_store(cache, key, values) == Put(cache, key, values)

\* BaseModel._piE_components, lines 228-257: the values of a projection
\* that is not in the memo, from the model's scalars and meta; e is the
\* ephemeris oracle's answer for (raL, decL, t0_par)
piE_values(m, e, projection) ==
    IF projection \notin {"geocentric", "heliocentric"}
    THEN RaiseMsg("ValueError", "projection")
    ELSE IF projection = "geocentric"
    THEN Return(<<Get(m.scalars, "piEE", Zero), Get(m.scalars, "piEN", Zero),
                  Get(m.scalars, "tE", Zero)>>, <<>>)
    ELSE IF ~({"raL", "decL", "t0_par"} \subseteq DOMAIN m.meta)
    THEN RaiseMsg("ValueError", "metadata keys")
    ELSE geocentric_to_heliocentric_piE(e, Get(m.scalars, "piEE", Zero),
                                        Get(m.scalars, "piEN", Zero),
                                        Get(m.scalars, "tE", Zero))

\* what piE, piEE and piEN make of the tuple that _piE_components returns
piE_wrap(fn, values) ==
    CASE fn = "piE" -> <<values[1], values[2]>>
      [] fn = "piEE" -> values[1]
      [] fn = "piEN" -> values[2]
      [] OTHER -> values

\* TimeSeries.matches that compares the observer only
matches_ObserverOnly(series, sel) ==
    sel.observer = None \/ series.observer = sel.observer

\* TimeSeries.matches
matches(series, sel) ==
    \A i \in DOMAIN FrameAttrs :
       sel[FrameAttrs[i]] = None \/ series[FrameAttrs[i]] = sel[FrameAttrs[i]]

\* BaseModel.get_series lines 366-377: <<attr, expected, current>> of every
\* selector that is given and differs from the stored value
Mismatches(series, sel) ==
    [i \in DOMAIN SelectSeq(FrameAttrs,
                            LAMBDA a : sel[a] # None /\ series[a] # sel[a]) |->
       <<SelectSeq(FrameAttrs, LAMBDA a : sel[a] # None /\ series[a] # sel[a])[i],
         sel[SelectSeq(FrameAttrs, LAMBDA a : sel[a] # None /\ series[a] # sel[a])[i]],
         series[SelectSeq(FrameAttrs, LAMBDA a : sel[a] # None /\ series[a] # sel[a])[i]]>>]

\* BaseModel.get_series(name, observer=, origin=, rest=, coords=, projection=)
get_series(m, name, sel) ==
    IF name \notin DOMAIN m.series
    THEN RaiseMsg("KeyError", "not present")
    ELSE IF \A i \in DOMAIN FrameAttrs : sel[FrameAttrs[i]] = None
    THEN RaiseMsg("ValueError", "requires explicit frame metadata")
    ELSE IF matches(m.series[name], sel)
    THEN Return(m.series[name], <<>>)
    ELSE RaiseMsg("ValueError", Mismatches(m.series[name], sel))

(***************************************************************************)
(* adapters/base.py and the four adapters                                  *)
(*                                                                         *)
(* A payload is a dict; a dump returns the payload and the model as the    *)
(* call leaves it.                                                         *)
(***************************************************************************)
SetDefault(d, k, v) == IF k \in DOMAIN d THEN d ELSE Put(d, k, v)

\* Python's "a or b" on None and strings
Or(a, b) == IF a \in {None, ""} THEN b ELSE a

\* BaseAdapter.registry, filled by the adapters' class definitions
registry == {"bagle", "gulls", "mulensmodel", "vbm"}

supported_observers(package) ==
    CASE package = "mulensmodel" -> {"earth"}
      [] OTHER -> {"earth", "roman_l2"}

supported_origins(package) ==
    CASE package = "bagle" -> {"lens1@t0", "barycenter"}
      [] package = "gulls" -> {"lens1@t0", "solar_barycenter"}
      [] OTHER -> {"lens1@t0"}

\* BaseAdapter.ensure_observer: "ok", or the exception it raises
ensure_observer(package, observer) ==
    IF observer \notin supported_observers(package) THEN "AdapterError" ELSE "ok"

\* BaseAdapter.ensure_origin
ensure_origin(package, origin) ==
    IF origin = None THEN "ok"
    ELSE IF origin \notin supported_origins(package) THEN "AdapterError"
    ELSE "ok"

\* get_adapter: "ok", or the exception for an unregistered package
get_adapter(package) == IF package \in registry THEN "ok" ELSE "AdapterError"

required_scalars == {"t0", "tE", "u0_amp", "u0_sign"}

\* BagleAdapter._extract_scalars, lines 66-72: the scalars mapping, or the
\* required keys found at the top level when that mapping is empty
bagle_scalars(normalized) ==
    IF DOMAIN Get(normalized, "scalars", EmptyDict) # {}
    THEN normalized["scalars"]
    ELSE [k \in required_scalars \cap DOMAIN normalized |-> normalized[k]]

\* BagleAdapter._extract_scalars without lines 73-77
extract_scalars_Unchecked(normalized) == Return(bagle_scalars(normalized), <<>>)

\* BagleAdapter._extract_scalars
extract_scalars(normalized) ==
    IF ~(required_scalars \subseteq DOMAIN bagle_scalars(normalized))
    THEN RaiseMsg("AdapterError", "missing required scalars")
    ELSE Return(bagle_scalars(normalized), <<>>)

\* BagleAdapter._serialize_payload without the series and the frames
serialize_payload_NoSeries(m, observer, origin) ==
    [scalars |-> m.scalars,
     meta |-> Put(Put(Put(m.meta, "observer", observer), "origin", origin),
                  "package", "bagle")]

\* BagleAdapter._serialize_payload
serialize_payload(m, observer, origin) ==
    [k \in {"scalars", "meta"}
           \cup (IF DOMAIN m.series # {} THEN {"series"} ELSE {})
           \cup (IF DOMAIN m.frames # {} THEN {"frames"} ELSE {}) |->
       CASE k = "scalars" -> m.scalars
         [] k = "meta" -> Put(Put(Put(m.meta, "observer", observer),
                                  "origin", origin), "package", "bagle")
         [] k = "series" -> m.series
         [] OTHER -> m.frames]

\* BagleAdapter.load lines 38-48, r being what BaseModel(...) did
bagle_loaded(r, observer) ==
    IF r.st # "ok" THEN r
    ELSE Return(cache_package(r.val, "bagle",
                    serialize_payload(r.val, observer, Get(r.val.meta, "origin", None))),
                <<>>)

\* BagleAdapter.load(params, observer)
bagle_load(params, observer) ==
    IF ensure_observer("bagle", observer) # "ok"
    THEN RaiseMsg("AdapterError", "observer")
    ELSE IF extract_scalars(params).st # "ok"
    THEN extract_scalars(params)
    ELSE bagle_loaded(
            BaseModel(extract_scalars(params).val,
                      SetDefault(SetDefault(Get(params, "meta", EmptyDict),
                                            "observer", observer), "package", "bagle"),
                      Get(params, "series", EmptyDict),
                      Get(params, "frames", EmptyDict), EmptyDict),
            observer)

\* BaseAdapter.build_model, for an adapter of the given package
build_model(package, params, observer) ==
    BaseModel(IF DOMAIN Get(params, "scalars", EmptyDict) = {} /\ "t0" \in DOMAIN params
              THEN [k \in {"t0"} |-> params["t0"]]
              ELSE Get(params, "scalars", EmptyDict),
              SetDefault(SetDefault(Get(params, "meta", EmptyDict),
                                    "package", package), "observer", observer),
              Get(params, "series", EmptyDict),
              [k \in {"native"} |->
                 [observer |-> observer,
                  origin |-> Get(Get(params, "meta", EmptyDict), "origin", None),
                  rest |-> Get(Get(params, "meta", EmptyDict), "rest", None),
                  coords |-> Get(Get(params, "meta", EmptyDict), "coords", None),
                  projection |-> Get(Get(params, "meta", EmptyDict), "projection", None)]],
              EmptyDict)

\* GullsAdapter.load, MulensModelAdapter.load, VBMicrolensingAdapter.load
stub_load(package, params, observer) ==
    IF ensure_observer(package, observer) # "ok"
    THEN RaiseMsg("AdapterError", "observer")
    ELSE build_model(package, params, observer)

\* load of the adapter registered for the package
load(package, params, observer) ==
    IF package = "bagle" THEN bagle_load(params, observer)
    ELSE stub_load(package, params, observer)

Dumped(payload, m) == [st |-> "ok", val |-> payload, log |-> <<>>, model |-> m]
DumpRaises(what, m) ==
    [st |-> "AdapterError", val |-> <<>>, log |-> <<>>, msg |-> what, model |-> m]

\* BagleAdapter.dump
bagle_dump(m, observer, origin) ==
    IF ensure_observer("bagle", observer) # "ok" THEN DumpRaises("observer", m)
    ELSE IF ensure_origin("bagle", Or(origin, Get(m.meta, "origin", None))) # "ok"
    THEN DumpRaises("origin", m)
    ELSE Dumped(serialize_payload(m, observer, Or(origin, Get(m.meta, "origin", None))),
                cache_package(m, "bagle",
                    serialize_payload(m, observer,
                                      Or(origin, Get(m.meta, "origin", None)))))

\* GullsAdapter.dump and MulensModelAdapter.dump (whose meta origin
\* defaults to "lens1@t0")
stub_dump(package, m, observer, origin) ==
    IF ensure_observer(package, observer) # "ok" THEN DumpRaises("observer", m)
    ELSE IF ensure_origin(package, origin) # "ok" THEN DumpRaises("origin", m)
    ELSE Dumped([scalars |-> m.scalars,
                 meta |-> [observer |-> observer,
                           origin |-> Or(origin,
                                         Get(m.meta, "origin",
                                             IF package = "mulensmodel"
                                             THEN "lens1@t0" ELSE None)),
                           package |-> package]], m)

\* VBMicrolensingAdapter.dump
vbm_dump(m, observer, origin) ==
    IF ensure_observer("vbm", observer) # "ok" THEN DumpRaises("observer", m)
    ELSE IF ensure_origin("vbm", origin) # "ok" THEN DumpRaises("origin", m)
    ELSE Dumped(SetDefault(m.scalars, "origin",
                           Or(origin, Get(m.meta, "origin", None))), m)

\* dump of the adapter registered for the package
dump(package, m, observer, origin) ==
    CASE package = "bagle" -> bagle_dump(m, observer, origin)
      [] package = "vbm" -> vbm_dump(m, observer, origin)
      [] OTHER -> stub_dump(package, m, observer, origin)

\* whether the scalars mapping of the payload that dump returns is an object
\* the model holds too: BagleAdapter.dump passes the payload to
\* cache_package, whose dict(payload) copies the top level only, so that
\* package_cache["bagle"]["scalars"] is the payload's scalars mapping; the
\* other adapters return mappings built from dict(model.scalars)
shares_scalars(package) == package = "bagle"

\* payload["scalars"][name] = value on the payload that dump returned, as
\* the model sees it
payload_scalar_set(package, m, name, value) ==
    IF shares_scalars(package)
    THEN [m EXCEPT !.package_cache =
            Put(m.package_cache, package,
                Put(m.package_cache[package], "scalars",
                    Put(m.package_cache[package]["scalars"], name, value)))]
    ELSE m

(***************************************************************************)
(* converters.py                                                           *)
(*                                                                         *)
(* A Converter is the record of its attributes; its PackageHandle objects  *)
(* are the entries of objs, and a handle is named by its index there, so   *)
(* that two handles are the same object iff they have the same index.      *)
(***************************************************************************)
handle_key(package, observer, origin) == <<package, observer, origin>>

\* Converter._cache_handle: the converter with a new handle for the key
cache_handle(c, package, params, observer, origin) ==
    [c EXCEPT !.objs = Append(c.objs, [package |-> package, params |-> params]),
              !.handles = Put(c.handles, handle_key(package, observer, origin),
                              Len(c.objs) + 1),
              !.package_alias = Put(c.package_alias, package, Len(c.objs) + 1)]

\* Converter.__init__(model, source_package, source_params)
Converter(m, source_package, source_params) ==
    cache_handle([source_package |-> source_package, objs |-> <<>>,
                  handles |-> EmptyDict, package_alias |-> EmptyDict],
                 source_package, source_params,
                 Get(m.meta, "observer", None), Get(m.meta, "origin", None))

\* Converter.get_handle that finds nothing
get_handle_Forgetful(c, package, observer, origin) == 0

\* Converter.get_handle: the handle's index, or 0 for None
get_handle(c, package, observer, origin) ==
    Get(c.handles, handle_key(package, observer, origin), 0)

\* Converter.__getattr__ for a package name: the handle's index, or 0 when
\* the lookup falls through to the model
getattr(c, name) == Get(c.package_alias, name, 0)

ToPackageResult(st, handle, dumped, c, m) ==
    [st |-> st, val |-> handle, dumped |-> dumped, conv |-> c, model |-> m]

\* Converter.to_package lines 90-92 that registers the alias before the
\* adapter's dump has returned
to_package_dumped_AliasFirst(c, package, observer, origin, d) ==
    IF d.st # "ok"
    THEN ToPackageResult(d.st, 0, TRUE,
                         [c EXCEPT !.package_alias = Put(c.package_alias, package, 0)],
                         d.model)
    ELSE ToPackageResult("ok", Len(c.objs) + 1, TRUE,
                         cache_handle(c, package, d.val, observer, origin), d.model)

\* Converter.to_package lines 90-92, d being what the adapter's dump did
to_package_dumped(c, package, observer, origin, d) ==
    IF d.st # "ok"
    THEN ToPackageResult(d.st, 0, TRUE, c, d.model)
    ELSE ToPackageResult("ok", Len(c.objs) + 1, TRUE,
                         cache_handle(c, package, d.val, observer, origin), d.model)

\* Converter.to_package(package, observer=, origin=) on the converter c of
\* the model m: the handle returned, whether the adapter's dump was
\* invoked, and the converter and the model as the call leaves them
to_package(c, m, package, observer, origin) ==
    IF get_handle(c, package, observer, origin) # 0
    THEN ToPackageResult("ok", get_handle(c, package, observer, origin), FALSE, c, m)
    ELSE IF get_adapter(package) # "ok"
    THEN ToPackageResult("AdapterError", 0, FALSE, c, m)
    ELSE to_package_dumped(c, package, observer, origin,
                           dump(package, m, observer, origin))

(***************************************************************************)
(* The callers: one client calls one entry point of the package with       *)
(* arguments of its choice and then the inverse entry point: the opposite  *)
(* conversion of the returned tuple, or the inverse rotation of the same   *)
(* arguments.  The ephemeris is an oracle: eph is what it answers for the  *)
(* call's (ra, dec, t0par), the same in both directions.  Times are days   *)
(* after MJD 60000.                                                        *)
(***************************************************************************)
VARIABLES entry, eph, pieArgs, pieOut, pieBack, photArgs, photOut, photBack,
          rotArgs, rotOut, rotBack, u0vecArgs, u0vecOut, model, convObj, threads,
          hist

vars == <<entry, eph, pieArgs, pieOut, pieBack, photArgs, photOut, photBack,
          rotArgs, rotOut, rotBack, u0vecArgs, u0vecOut, model, convObj, threads,
          hist>>

\* the objects of models.py and converters.py: the canonical model, the
\* converter, the calls in progress and the calls that have returned
objVars == <<model, convObj, threads, hist>>

\* bounds of the input grids
MaxPiE == 4
MaxVel == 1
MaxMu == 4
MaxAlpha == 4
\* the grids' denominators (Earth moves at no more than 30.3 km/s, which is
\* 1.75 / VelDen of the unit constant), the timescales and the epochs, in days
PiEDen == 10
VelDen == 100
TEDays == 40
TELong == 250
T0Day == 5
T0ParDay == 2

NoCall == [st |-> "none", val |-> <<>>, log |-> <<>>]
NonFinite == {NaN, PInf, NInf}
BadName == "other"

NoIrrIn(r) == \A i \in DOMAIN r.val : ~IsIrr(r.val[i])

Opposite(in_frame) == IF in_frame = "helio" THEN "geo" ELSE "helio"

PiEComps == {Rat(a, PiEDen) : a \in -MaxPiE..MaxPiE}
VelComps == {Fin(w, VelDen, 1) : w \in -MaxVel..MaxVel}
PhotPiEComps == {Rat(a, PiEDen) : a \in {-3, 0, 3, 4}}
Positions == {<<Zero, Zero>>, <<Rat(1, 2), Rat(-1, 4)>>}
Ephems == [vel : VelComps \X VelComps, pos : Positions]
EphBase == [vel |-> <<Fin(1, VelDen, 1), Fin(-1, VelDen, 1)>>,
            pos |-> <<Rat(1, 2), Rat(-1, 4)>>]

\* ---- direct convert_piEvec_tE calls
PieGrid == [piEE : PiEComps, piEN : PiEComps, tE : {Rat(TEDays, 1), Rat(TELong, 1)},
            in_frame : FrameNames]
PieOddGrid == [piEE : PhotPiEComps, piEN : PhotPiEComps,
               tE : {Zero, Rat(-TEDays, 1)}, in_frame : FrameNames]
PieBase == [piEE |-> Rat(3, PiEDen), piEN |-> Rat(4, PiEDen),
            tE |-> Rat(TEDays, 1), in_frame |-> "helio"]
PieFaulty ==
    {[PieBase EXCEPT !.piEE = x] : x \in NonFinite}
    \cup {[PieBase EXCEPT !.piEN = x] : x \in NonFinite}
    \cup {[PieBase EXCEPT !.tE = x] : x \in NonFinite}
    \cup {[a EXCEPT !.in_frame = BadName] :
            a \in {PieBase, [PieBase EXCEPT !.piEE = NaN],
                   [PieBase EXCEPT !.piEE = Zero, !.piEN = Zero]}}

PieBackCall(e, a, out) ==
    IF a.in_frame = "helio"
    THEN geocentric_to_heliocentric_piE(e, out.val[1], out.val[2], out.val[3])
    ELSE heliocentric_to_geocentric_piE(e, out.val[1], out.val[2], out.val[3])

PieExact(e, a, out) ==
    /\ NoIrrIn(out)
    /\ out.st = "ok" => NoIrrIn(PieBackCall(e, a, out))

PieRepresentable(e, a) ==
    /\ ~IsIrr(Hypot(a.piEE, a.piEN))
    /\ PieExact(e, a, convert_piEvec_tE(e, a.piEE, a.piEN, a.tE, a.in_frame))

\* ---- convert_helio_geo_phot calls
Conventions == [coord_in : CoordNames, coord_out : CoordNames,
                murel_in : MuRelNames, murel_out : MuRelNames]
U0s == {Rat(1, 10), Zero, Rat(-1, 10)}

PhotArgs(core, u0, conv) ==
    [t0 |-> Rat(T0Day, 1), u0 |-> u0, tE |-> core.tE, piEE |-> core.piEE,
     piEN |-> core.piEN, t0par |-> Rat(T0ParDay, 1), in_frame |-> core.in_frame,
     murel_in |-> conv.murel_in, murel_out |-> conv.murel_out,
     coord_in |-> conv.coord_in, coord_out |-> conv.coord_out]

PhotCores == [piEE : PhotPiEComps, piEN : PhotPiEComps, tE : {Rat(TEDays, 1)},
              in_frame : FrameNames]
PhotOddCores == [piEE : {Rat(3, PiEDen)}, piEN : {Rat(4, PiEDen), Zero},
                 tE : {Zero, Rat(-TEDays, 1)}, in_frame : FrameNames]
SameConventions == {c \in Conventions :
                      c.coord_in = c.coord_out /\ c.murel_in = c.murel_out}
\* the conventions of the generic calls: the same on both sides, or both
\* changed at once
PhotConventions == {c \in Conventions :
                      (c.coord_in = c.coord_out) <=> (c.murel_in = c.murel_out)}
PhotBase == PhotArgs(PieBase, Rat(1, 10),
                     [coord_in |-> "EN", coord_out |-> "EN",
                      murel_in |-> "SL", murel_out |-> "SL"])
PhotFaulty ==
    LET bases == {PhotBase, [PhotBase EXCEPT !.piEE = Zero, !.piEN = Zero],
                  [PhotBase EXCEPT !.u0 = NaN]}
    IN  UNION {{[b EXCEPT !.t0 = x], [b EXCEPT !.u0 = x], [b EXCEPT !.tE = x],
                [b EXCEPT !.piEE = x], [b EXCEPT !.piEN = x]} :
               <<b, x>> \in {PhotBase} \X NonFinite}
        \cup UNION {{[b EXCEPT !.in_frame = BadName], [b EXCEPT !.coord_in = BadName],
                     [b EXCEPT !.coord_out = BadName], [b EXCEPT !.murel_in = BadName],
                     [b EXCEPT !.murel_out = BadName]} : b \in bases}

\* the call that converts a returned tuple back: the frame swapped, the
\* input conventions those of the first call's output and conversely
PhotBackArgs(a, out) ==
    [a EXCEPT !.t0 = out.val[1], !.u0 = out.val[2], !.tE = out.val[3],
              !.piEE = out.val[4], !.piEN = out.val[5],
              !.in_frame = Opposite(a.in_frame),
              !.murel_in = a.murel_out, !.murel_out = a.murel_in,
              !.coord_in = a.coord_out, !.coord_out = a.coord_in]

PhotExact(e, a, out) ==
    /\ NoIrrIn(out)
    /\ out.st = "ok" => NoIrrIn(convert_helio_geo_phot(e, PhotBackArgs(a, out)))

PhotRepresentable(e, a) == PhotExact(e, a, convert_helio_geo_phot(e, a))

\* ---- rotation helper calls
MuComps == {Rat(a, 1) : a \in -MaxMu..MaxMu}
Alphas == {Deg(y, x) : <<y, x>> \in
             {v \in (-MaxAlpha..MaxAlpha) \X (-MaxAlpha..MaxAlpha) :
                v # <<0, 0>> /\ IsSquare(v[1] * v[1] + v[2] * v[2])}}
Sgns == {Rat(1, 1), Rat(-1, 1)}
OddSgns == {Zero, Rat(2, 1)}
RotBase == [mu_rel_E |-> Rat(3, 1), mu_rel_N |-> Rat(4, 1),
            alpha_deg |-> Deg(3, 4), sgn |-> One]
RotGrid == [mu_rel_E : MuComps, mu_rel_N : MuComps, alpha_deg : Alphas,
            sgn : Sgns]
RotOdd == [mu_rel_E : {Rat(3, 1), Zero}, mu_rel_N : {Rat(4, 1), Zero},
           alpha_deg : {Deg(3, 4), Deg(0, 1)} \cup NonFinite,
           sgn : Sgns \cup OddSgns \cup NonFinite]
        \cup {[RotBase EXCEPT !.mu_rel_E = x] : x \in NonFinite}
        \cup {[RotBase EXCEPT !.mu_rel_N = x] : x \in NonFinite}
TuGrid == [mu_rel_E : {Rat(3, 1)}, mu_rel_N : {Rat(4, 1)},
           alpha_deg : Alphas \cup NonFinite,
           sgn : Sgns \cup OddSgns \cup NonFinite]

\* ---- the objects: what there is before any of them is built
NThreads == 2
MaxCalls == 3
Threads == 1..NThreads
NoModel == [none |-> TRUE]
NoConverter == [none |-> TRUE]
IdleThread == [pc |-> "idle", fn |-> "", key |-> "", values |-> <<>>, ret |-> NoCall]

ObjIdle ==
    /\ model = NoModel
    /\ convObj = NoConverter
    /\ threads = [t \in Threads |-> IdleThread]
    /\ hist = <<>>

numVars == <<eph, pieArgs, pieOut, pieBack, photArgs, photOut, photBack,
             rotArgs, rotOut, rotBack, u0vecArgs, u0vecOut>>

\* ---- models with a projection memo
BaseScalars == [t0 |-> Rat(T0Day, 1), tE |-> Rat(TEDays, 1),
                u0_amp |-> Rat(1, 10), u0_sign |-> One]
MemoScalars == {BaseScalars,
                Put(BaseScalars, "piEE", Rat(3, PiEDen)),
                Put(Put(BaseScalars, "piEE", Rat(3, PiEDen)), "piEN", Rat(4, PiEDen))}
SkyMeta == [raL |-> "17:45:40", decL |-> "-29.0", t0_par |-> "60002.0"]
MemoMetas == {SkyMeta, [raL |-> "17:45:40", decL |-> "-29.0"], EmptyDict}
MemoEphems == {[vel |-> <<Fin(-1, VelDen, 1), Fin(1, VelDen, 1)>>, pos |-> <<Zero, Zero>>],
               [vel |-> <<Zero, Zero>>, pos |-> <<Zero, Zero>>]}
Projections == {"geocentric", "heliocentric", "Geocentric", BadName}
PiEFns == {"_piE_components", "piE", "piEE", "piEN"}
MemoUpdates == {<<"piEE", Rat(-3, PiEDen)>>, <<"piEE", Rat(4, PiEDen)>>,
                <<"tE", Rat(TELong, 1)>>}

\* the parallax conversion of a model's scalars stays within the rationals
MemoRepresentable(e, scalars) ==
    PieRepresentable(e, [piEE |-> Get(scalars, "piEE", Zero),
                         piEN |-> Get(scalars, "piEN", Zero),
                         tE |-> Get(scalars, "tE", Zero), in_frame |-> "geo"])

\* ---- direct convert_u0vec_t0 calls: the unit vectors are those of 3-4-5
\* triangles, u0hat_in one of the two perpendiculars of tauhat_in
UnitVecs == {<<Rat(3, 5), Rat(4, 5)>>, <<Rat(-4, 5), Rat(3, 5)>>, <<One, Zero>>}
U0vecGrid == [t0par : {Rat(T0ParDay, 1)}, t0_in : {Rat(T0Day, 1)},
              u0_in : {Rat(1, 10), Rat(-1, 10)}, tE_in : {Rat(TEDays, 1)},
              tE_out : {Rat(TEDays, 1), Rat(TELong, 1)}, piE : {Rat(1, 2)},
              tauhat_in : UnitVecs,
              u0hat_in : {<<Rat(4, 5), Rat(-3, 5)>>, <<Zero, One>>},
              tauhat_out : UnitVecs,
              in_frame : {"helio", "geo", BadName, "HELIO"}]
U0vecBase == [t0par |-> Rat(T0ParDay, 1), t0_in |-> Rat(T0Day, 1),
              u0_in |-> Rat(1, 10), tE_in |-> Rat(TEDays, 1),
              tE_out |-> Rat(TEDays, 1), piE |-> Rat(1, 2),
              tauhat_in |-> <<Rat(3, 5), Rat(4, 5)>>,
              u0hat_in |-> <<Rat(4, 5), Rat(-3, 5)>>,
              tauhat_out |-> <<Rat(3, 5), Rat(4, 5)>>, in_frame |-> "helio"]

Idle ==
    /\ pieOut = NoCall /\ pieBack = NoCall
    /\ photOut = NoCall /\ photBack = NoCall
    /\ rotOut = NoCall /\ rotBack = NoCall
    /\ u0vecArgs = U0vecBase /\ u0vecOut = NoCall

InitU0vec ==
    /\ entry = "u0vec"
    /\ eph \in {EphBase, [vel |-> <<Zero, Zero>>, pos |-> <<Zero, Zero>>]}
    /\ u0vecArgs \in U0vecGrid
    /\ IsZero(Dot(u0vecArgs.tauhat_in, u0vecArgs.u0hat_in))
    /\ pieArgs = PieBase /\ photArgs = PhotBase /\ rotArgs = RotBase
    /\ pieOut = NoCall /\ pieBack = NoCall
    /\ photOut = NoCall /\ photBack = NoCall
    /\ rotOut = NoCall /\ rotBack = NoCall
    /\ u0vecOut = NoCall
    /\ ObjIdle

InitPiE ==
    /\ entry = "piE"
    /\ \E ea \in {e \in Ephems : e.pos = <<Zero, Zero>>}
                  \X (PieGrid \cup PieOddGrid \cup PieFaulty) :
          /\ PieRepresentable(ea[1], ea[2])
          /\ eph = ea[1]
          /\ pieArgs = ea[2]
    /\ photArgs = PhotBase
    /\ rotArgs = RotBase
    /\ Idle
    /\ ObjIdle

InitPhot ==
    /\ entry = "phot"
    /\ \/ \E e \in Ephems, core \in PhotCores :
            /\ PieRepresentable(e, core)
            /\ \E u0 \in U0s, conv \in PhotConventions :
                  /\ PhotRepresentable(e, PhotArgs(core, u0, conv))
                  /\ eph = e
                  /\ photArgs = PhotArgs(core, u0, conv)
       \/ \E e \in {EphBase}, core \in PhotOddCores, u0 \in U0s,
             conv \in SameConventions :
            /\ PhotRepresentable(e, PhotArgs(core, u0, conv))
            /\ eph = e
            /\ photArgs = PhotArgs(core, u0, conv)
       \/ /\ eph = EphBase
          /\ photArgs \in PhotFaulty
    /\ pieArgs = PieBase
    /\ rotArgs = RotBase
    /\ Idle
    /\ ObjIdle

RotRepresentable(a) ==
    /\ ~IsIrr(Hypot(a.mu_rel_E, a.mu_rel_N))
    /\ ~IsIrr(CosDeg(a.alpha_deg))

InitRot ==
    /\ \/ entry = "ne" /\ rotArgs \in RotGrid \cup RotOdd
       \/ entry = "tu" /\ rotArgs \in TuGrid
    /\ RotRepresentable(rotArgs)
    /\ eph = EphBase
    /\ pieArgs = PieBase
    /\ photArgs = PhotBase
    /\ Idle
    /\ ObjIdle

\* convert_piEvec_tE(ra, dec, t0par, piEE, piEN, tE, in_frame=...)
CallConvertPiE ==
    /\ entry = "piE"
    /\ pieOut.st = "none"
    /\ pieOut' = convert_piEvec_tE(eph, pieArgs.piEE, pieArgs.piEN, pieArgs.tE,
                                   pieArgs.in_frame)
    /\ UNCHANGED <<entry, eph, pieArgs, pieBack, photArgs, photOut, photBack,
                   rotArgs, rotOut, rotBack>>
    /\ UNCHANGED <<objVars, u0vecArgs, u0vecOut>>

\* the opposite conversion of the returned tuple, same t0par
\* (tests/test_projections.py, test_piE_roundtrip_between_frames)
CallConvertPiEBack ==
    /\ entry = "piE"
    /\ pieOut.st = "ok"
    /\ pieBack.st = "none"
    /\ pieBack' = PieBackCall(eph, pieArgs, pieOut)
    /\ UNCHANGED <<entry, eph, pieArgs, pieOut, photArgs, photOut, photBack,
                   rotArgs, rotOut, rotBack>>
    /\ UNCHANGED <<objVars, u0vecArgs, u0vecOut>>

\* convert_helio_geo_phot(ra, dec, t0par=..., **params)
CallConvertPhot ==
    /\ entry = "phot"
    /\ photOut.st = "none"
    /\ photOut' = convert_helio_geo_phot(eph, photArgs)
    /\ UNCHANGED <<entry, eph, pieArgs, pieOut, pieBack, photArgs, photBack,
                   rotArgs, rotOut, rotBack>>
    /\ UNCHANGED <<objVars, u0vecArgs, u0vecOut>>

\* convert_u0vec_t0(ra, dec, t0par, t0_in, u0_in, tE_in, tE_out, piE,
\* tauhatE_in, ..., tauhatN_out, in_frame=...) called directly
CallConvertU0vec ==
    /\ entry = "u0vec"
    /\ u0vecOut.st = "none"
    /\ u0vecOut' = convert_u0vec_t0(eph, u0vecArgs)
    /\ UNCHANGED <<entry, eph, pieArgs, pieOut, pieBack, photArgs, photOut, photBack,
                   rotArgs, rotOut, rotBack, u0vecArgs>>
    /\ UNCHANGED objVars

\* (tests/test_projections.py, test_convert_helio_geo_phot_roundtrip)
CallConvertPhotBack ==
    /\ entry = "phot"
    /\ photOut.st = "ok"
    /\ photBack.st = "none"
    /\ photBack' = convert_helio_geo_phot(eph, PhotBackArgs(photArgs, photOut))
    /\ UNCHANGED <<entry, eph, pieArgs, pieOut, pieBack, photArgs, photOut,
                   rotArgs, rotOut, rotBack>>
    /\ UNCHANGED <<objVars, u0vecArgs, u0vecOut>>

\* rotation_xy_to_tu(alpha_deg, sgn)
CallXyToTu ==
    /\ entry = "tu"
    /\ rotOut.st = "none"
    /\ rotOut' = rotation_xy_to_tu(rotArgs.alpha_deg, rotArgs.sgn)
    /\ UNCHANGED <<entry, eph, pieArgs, pieOut, pieBack, photArgs, photOut,
                   photBack, rotArgs, rotBack>>
    /\ UNCHANGED <<objVars, u0vecArgs, u0vecOut>>

\* rotation_tu_to_xy(alpha_deg, sgn)
CallTuToXy ==
    /\ entry = "tu"
    /\ rotOut.st # "none"
    /\ rotBack.st = "none"
    /\ rotBack' = rotation_tu_to_xy(rotArgs.alpha_deg, rotArgs.sgn)
    /\ UNCHANGED <<entry, eph, pieArgs, pieOut, pieBack, photArgs, photOut,
                   photBack, rotArgs, rotOut>>
    /\ UNCHANGED <<objVars, u0vecArgs, u0vecOut>>

\* rotation_xy_to_ne(mu_rel_E, mu_rel_N, alpha_deg, sgn)
CallXyToNe ==
    /\ entry = "ne"
    /\ rotOut.st = "none"
    /\ rotOut' = rotation_xy_to_ne(rotArgs.mu_rel_E, rotArgs.mu_rel_N,
                                   rotArgs.alpha_deg, rotArgs.sgn)
    /\ UNCHANGED <<entry, eph, pieArgs, pieOut, pieBack, photArgs, photOut,
                   photBack, rotArgs, rotBack>>
    /\ UNCHANGED <<objVars, u0vecArgs, u0vecOut>>

\* rotation_ne_to_xy(mu_rel_E, mu_rel_N, alpha_deg, sgn)
CallNeToXy ==
    /\ entry = "ne"
    /\ rotOut.st # "none"
    /\ rotBack.st = "none"
    /\ rotBack' = rotation_ne_to_xy(rotArgs.mu_rel_E, rotArgs.mu_rel_N,
                                    rotArgs.alpha_deg, rotArgs.sgn)
    /\ UNCHANGED <<entry, eph, pieArgs, pieOut, pieBack, photArgs, photOut,
                   photBack, rotArgs, rotOut>>
    /\ UNCHANGED <<objVars, u0vecArgs, u0vecOut>>

\* ---- BaseModel._piE_components, one call per thread at a time.  With
\* entry "memo" one caller makes its calls one after the other and changes
\* the model's scalars in between; with entry "threads" several threads
\* call the model concurrently and nobody changes its parameters.
InitMemo ==
    /\ entry \in {"memo", "threads"}
    /\ \E e \in MemoEphems, sc \in MemoScalars, meta \in MemoMetas :
          /\ MemoRepresentable(e, sc)
          /\ eph = e
          /\ model = BaseModel(sc, meta, EmptyDict, EmptyDict, EmptyDict).val
    /\ convObj = NoConverter
    /\ threads = [t \in Threads |-> IdleThread]
    /\ hist = <<>>
    /\ pieArgs = PieBase /\ photArgs = PhotBase /\ rotArgs = RotBase
    /\ Idle

Callers == IF entry = "threads" THEN Threads ELSE {1}
InProgress == {t \in Threads : threads[t].pc \notin {"idle", "done"}}

\* lines 225-226: the call starts, lowers the name and looks it up
PiEBegin ==
    /\ entry \in {"memo", "threads"}
    /\ Len(hist) + Cardinality(InProgress) < MaxCalls
    /\ \E t \in Callers, fn \in PiEFns, projection \in Projections :
          /\ entry = "threads" => fn = "_piE_components"
          /\ threads[t].pc \in {"idle", "done"}
          /\ threads' = [threads EXCEPT ![t] =
                [pc |-> memo_lookup(model.piE_cache, Lower(projection)),
                 fn |-> fn, key |-> Lower(projection), values |-> <<>>,
                 ret |-> NoCall]]
    /\ UNCHANGED <<entry, numVars, model, convObj, hist>>

\* line 227: return self._piE_cache[projection]
PiEHit ==
    /\ \E t \in Threads :
          /\ threads[t].pc = "hit"
          /\ threads' = [threads EXCEPT ![t].pc = "done",
                ![t].ret = Return(piE_wrap(threads[t].fn,
                                           model.piE_cache[threads[t].key]), <<>>)]
          /\ hist' = Append(hist, [op |-> "_piE_components", key |-> threads[t].key,
                                   st |-> "ok",
                                   val |-> model.piE_cache[threads[t].key]])
    /\ UNCHANGED <<entry, numVars, model, convObj>>

\* lines 228-257: the values are computed, or the call raises
PiECompute ==
    /\ \E t \in Threads :
          /\ threads[t].pc = "miss"
          /\ IF piE_values(model, eph, threads[t].key).st = "ok"
             THEN /\ threads' = [threads EXCEPT ![t].pc = "store",
                        ![t].values = piE_values(model, eph, threads[t].key).val]
                  /\ hist' = hist
             ELSE /\ threads' = [threads EXCEPT ![t].pc = "done",
                        ![t].ret = piE_values(model, eph, threads[t].key)]
                  /\ hist' = Append(hist,
                        [op |-> "_piE_components", key |-> threads[t].key,
                         st |-> piE_values(model, eph, threads[t].key).st,
                         val |-> <<>>])
    /\ UNCHANGED <<entry, numVars, model, convObj>>

\* lines 258-259: the values are stored and returned
PiEStore ==
    /\ \E t \in Threads :
          /\ threads[t].pc = "store"
          /\ model' = [model EXCEPT !.piE_cache =
                   memo_store(model.piE_cache, threads[t].key, threads[t].values)]
          /\ threads' = [threads EXCEPT ![t].pc = "done",
                ![t].ret = Return(piE_wrap(threads[t].fn, threads[t].values), <<>>)]
          /\ hist' = Append(hist, [op |-> "_piE_components", key |-> threads[t].key,
                                   st |-> "ok", val |-> threads[t].values])
    /\ UNCHANGED <<entry, numVars, convObj>>

\* model.scalars[name] = value, between two calls of the one caller
SetScalar ==
    /\ entry = "memo"
    /\ InProgress = {}
    /\ \E u \in MemoUpdates :
          /\ ~(u[1] \in DOMAIN model.scalars /\ model.scalars[u[1]] = u[2])
          /\ MemoRepresentable(eph, Put(model.scalars, u[1], u[2]))
          /\ model' = [model EXCEPT !.scalars = Put(model.scalars, u[1], u[2])]
    /\ UNCHANGED <<entry, numVars, convObj, threads, hist>>

\* ---- the converter of a loaded model: converter(source=, params=,
\* observer=) has returned, and the client calls to_package
ConvPayloads == {[scalars |-> BaseScalars, meta |-> [origin |-> "lens1@t0"]],
                 [scalars |-> BaseScalars]}
ConvPackages == {"bagle", "gulls", "mulensmodel", BadName}
ConvObservers == {"earth", "roman_l2"}
ConvOrigins == {None, "lens1@t0"}

InitConv ==
    /\ entry = "conv"
    /\ \E source \in {"bagle", "gulls"}, params \in ConvPayloads,
          observer \in ConvObservers :
          /\ model = load(source, params, observer).val
          /\ convObj = Converter(load(source, params, observer).val, source, params)
    /\ eph = EphBase
    /\ threads = [t \in Threads |-> IdleThread]
    /\ hist = <<>>
    /\ pieArgs = PieBase /\ photArgs = PhotBase /\ rotArgs = RotBase
    /\ Idle

\* conv.to_package(package, observer=, origin=)
CallToPackage ==
    /\ entry = "conv"
    /\ Len(hist) < MaxCalls
    /\ \E package \in ConvPackages, observer \in ConvObservers,
          origin \in ConvOrigins :
          /\ convObj' = to_package(convObj, model, package, observer, origin).conv
          /\ model' = to_package(convObj, model, package, observer, origin).model
          /\ hist' = Append(hist,
                [op |-> "to_package", key |-> handle_key(package, observer, origin),
                 at |-> model,
                 st |-> to_package(convObj, model, package, observer, origin).st,
                 val |-> to_package(convObj, model, package, observer, origin).val,
                 dumped |-> to_package(convObj, model, package, observer,
                                       origin).dumped])
    /\ UNCHANGED <<entry, numVars, threads>>

\* conv.dump(package, observer=, origin=): the params of the handle that
\* to_package returns
CallConverterDump ==
    /\ entry = "conv"
    /\ Len(hist) < MaxCalls
    /\ \E package \in {"bagle", "gulls"}, observer \in ConvObservers,
          origin \in {None} :
          /\ convObj' = to_package(convObj, model, package, observer, origin).conv
          /\ model' = to_package(convObj, model, package, observer, origin).model
          /\ hist' = Append(hist,
                [op |-> "dump", key |-> handle_key(package, observer, origin),
                 at |-> model,
                 st |-> to_package(convObj, model, package, observer, origin).st,
                 val |-> IF to_package(convObj, model, package, observer,
                                       origin).st = "ok"
                         THEN convObj'.objs[to_package(convObj, model, package,
                                                       observer, origin).val].params
                         ELSE <<>>,
                 dumped |-> to_package(convObj, model, package, observer,
                                       origin).dumped])
    /\ UNCHANGED <<entry, numVars, threads>>

\* conv.model.scalars["t0"] = value, after a first call and before the last
SetConvScalar ==
    /\ entry = "conv"
    /\ Len(hist) \in 1..(MaxCalls - 1)
    /\ model.scalars["t0"] # Rat(T0Day + 1, 1)
    /\ model' = [model EXCEPT !.scalars = Put(model.scalars, "t0", Rat(T0Day + 1, 1))]
    /\ UNCHANGED <<entry, numVars, convObj, threads, hist>>

\* ---- building a model and using it: with entry "build" there is no model
\* at first; a client loads a payload or constructs the model directly,
\* may assign to its scalars, and then makes one call of a method of the
\* model or of an adapter's dump; at is the model as it was when the call
\* was made.
TrackSeries == [coords |-> "lens_xy", observer |-> "earth", origin |-> "lens1@t0",
                rest |-> "source"]
ParallaxScalars == Put(Put(BaseScalars, "piEE", Rat(3, PiEDen)), "piEN", Rat(4, PiEDen))
TestPayload == [scalars |-> ParallaxScalars,
                meta |-> [origin |-> "lens1@t0", event |-> "demo"],
                series |-> [source_track |-> TrackSeries]]
Payloads ==
    {TestPayload,
     EmptyDict,
     [scalars |-> BaseScalars],
     [scalars |-> BaseScalars, meta |-> [origin |-> "solar_barycenter"]],
     [scalars |-> [k \in {"t0", "tE", "u0_amp"} |-> BaseScalars[k]]],
     [scalars |-> [BaseScalars EXCEPT !.u0_sign = Zero]],
     [scalars |-> [BaseScalars EXCEPT !.u0_sign = Rat(-1, 1)]],
     BaseScalars,
     [k \in {"t0", "u0_amp", "u0_sign"} |-> BaseScalars[k]],
     [k \in {"scalars"} \cup DOMAIN BaseScalars |->
        IF k = "scalars" THEN EmptyDict ELSE BaseScalars[k]],
     [k \in {"scalars", "tE", "u0_amp", "u0_sign"} |->
        IF k = "scalars" THEN [j \in {"t0"} |-> BaseScalars[j]] ELSE BaseScalars[k]]}
LoadObservers == {"earth", "mars"}
BuildUpdates == {<<"t0", Rat(T0Day + 1, 1)>>, <<"u0_sign", Rat(-1, 1)>>}
Selectors == [observer : {None, "earth", "roman_l2"}, origin : {None, "barycenter"},
              rest : {None}, coords : {None, "lens_xy"},
              projection : {None, "geocentric"}]
DumpOrigins == {None, "lens1@t0", "solar_barycenter"}

HasModel == "scalars" \in DOMAIN model

InitBuild ==
    /\ entry = "build"
    /\ eph = EphBase
    /\ ObjIdle
    /\ pieArgs = PieBase /\ photArgs = PhotBase /\ rotArgs = RotBase
    /\ Idle

\* Adapter.load(params, observer=): the model, or the exception
CallLoad ==
    /\ entry = "build"
    /\ ~HasModel /\ hist = <<>>
    /\ \E package \in {"bagle", "gulls"}, params \in Payloads,
          observer \in LoadObservers :
          /\ model' = IF load(package, params, observer).st = "ok"
                      THEN load(package, params, observer).val ELSE model
          /\ hist' = <<[op |-> "load", package |-> package, params |-> params,
                        observer |-> observer, at |-> model,
                        st |-> load(package, params, observer).st,
                        val |-> load(package, params, observer).val]>>
    /\ UNCHANGED <<entry, numVars, convObj, threads>>

\* BaseModel(scalars=..., series=...)
CallBaseModel ==
    /\ entry = "build"
    /\ ~HasModel /\ hist = <<>>
    /\ \E params \in Payloads :
          /\ "meta" \notin DOMAIN params
          /\ model' = IF BaseModel(Get(params, "scalars", EmptyDict), EmptyDict,
                                   EmptyDict, EmptyDict, EmptyDict).st = "ok"
                      THEN BaseModel(Get(params, "scalars", EmptyDict), EmptyDict,
                                     EmptyDict, EmptyDict, EmptyDict).val
                      ELSE model
          /\ hist' = <<[op |-> "BaseModel", params |-> params, at |-> model,
                        st |-> BaseModel(Get(params, "scalars", EmptyDict), EmptyDict,
                                         EmptyDict, EmptyDict, EmptyDict).st,
                        val |-> BaseModel(Get(params, "scalars", EmptyDict), EmptyDict,
                                          EmptyDict, EmptyDict, EmptyDict).val]>>
    /\ UNCHANGED <<entry, numVars, convObj, threads>>

\* model.scalars[name] = value on a model that was built
SetBuiltScalar ==
    /\ entry = "build"
    /\ HasModel /\ Len(hist) = 1
    /\ \E u \in BuildUpdates :
          /\ model.scalars[u[1]] # u[2]
          /\ model' = [model EXCEPT !.scalars = Put(model.scalars, u[1], u[2])]
    /\ UNCHANGED <<entry, numVars, convObj, threads, hist>>

\* model.add_series, model.add_frames, model.cache_package
CallMutator ==
    /\ entry = "build"
    /\ HasModel /\ Len(hist) = 1
    /\ \E m \in {add_series(model, "phot", [TrackSeries EXCEPT !.observer = "roman_l2"]),
                 add_frames(model, "native", [observer |-> "earth"]),
                 cache_package(model, "vbm", BaseScalars)} :
          /\ m # model
          /\ model' = m
          /\ hist' = Append(hist, [op |-> "mutator", at |-> model, st |-> "ok",
                                   val |-> <<>>])
    /\ UNCHANGED <<entry, numVars, convObj, threads>>

\* model.copy()
CallCopy ==
    /\ entry = "build"
    /\ HasModel /\ Len(hist) = 1
    /\ hist' = Append(hist, [op |-> "copy", at |-> model, st |-> copy(model).st,
                             val |-> copy(model).val])
    /\ UNCHANGED <<entry, numVars, model, convObj, threads>>

\* model.get_series(name, observer=, origin=, rest=, coords=, projection=)
CallGetSeries ==
    /\ entry = "build"
    /\ HasModel /\ Len(hist) = 1
    /\ \E name \in {"source_track", "centroid"}, sel \in Selectors :
          hist' = Append(hist, [op |-> "get_series", name |-> name, sel |-> sel,
                                at |-> model, res |-> get_series(model, name, sel)])
    /\ UNCHANGED <<entry, numVars, model, convObj, threads>>

\* Adapter.dump(model, observer=, origin=)
CallDump ==
    /\ entry = "build"
    /\ HasModel /\ Len(hist) = 1
    /\ \E package \in registry, observer \in LoadObservers \cup {"roman_l2"},
          origin \in DumpOrigins :
          /\ model' = dump(package, model, observer, origin).model
          /\ hist' = Append(hist,
                [op |-> "dump", package |-> package, observer |-> observer,
                 origin |-> origin, at |-> model,
                 st |-> dump(package, model, observer, origin).st,
                 val |-> dump(package, model, observer, origin).val])
    /\ UNCHANGED <<entry, numVars, convObj, threads>>

\* payload["scalars"]["t0"] = value on the payload the dump returned
SetPayloadScalar ==
    /\ entry = "build"
    /\ Len(hist) = 2 /\ hist[2].op = "dump" /\ hist[2].st = "ok"
    /\ model' = payload_scalar_set(hist[2].package, model, "t0", Rat(T0Day + 2, 1))
    /\ hist' = Append(hist, [op |-> "payload_set", package |-> hist[2].package,
                             at |-> model])
    /\ UNCHANGED <<entry, numVars, convObj, threads>>

Init == InitPiE \/ InitPhot \/ InitRot \/ InitU0vec

Next ==
    \/ CallConvertPiE
    \/ CallConvertPiEBack
    \/ CallConvertPhot
    \/ CallConvertPhotBack
    \/ CallConvertU0vec
    \/ CallXyToTu
    \/ CallTuToXy
    \/ CallXyToNe
    \/ CallNeToXy

Spec == Init /\ [][Next]_vars

\* the objects of models.py, converters.py and the adapters
ModelInit == InitMemo \/ InitConv \/ InitBuild

ModelNext ==
    \/ PiEBegin
    \/ PiEHit
    \/ PiECompute
    \/ PiEStore
    \/ SetScalar
    \/ CallToPackage
    \/ CallConverterDump
    \/ SetConvScalar
    \/ CallLoad
    \/ CallBaseModel
    \/ SetBuiltScalar
    \/ CallMutator
    \/ CallCopy
    \/ CallGetSeries
    \/ CallDump
    \/ SetPayloadScalar

ModelSpec == ModelInit /\ [][ModelNext]_vars

(***************************************************************************)
(* Properties                                                              *)
(***************************************************************************)
AllFin(xs) == \A x \in xs : IsFin(x)
HasLogged(r, ev) == \E i \in DOMAIN r.log : r.log[i] = ev
PhotNumbers(a) == {a.t0, a.u0, a.tE, a.piEE, a.piEN}
PhotTuple(a) == <<a.t0, a.u0, a.tE, a.piEE, a.piEN>>
PhotEnumsValid(a) ==
    /\ a.in_frame \in FrameNames
    /\ a.coord_in \in CoordNames /\ a.coord_out \in CoordNames
    /\ a.murel_in \in MuRelNames /\ a.murel_out \in MuRelNames
NonZeroPiE(a) == ~(IsZero(a.piEE) /\ IsZero(a.piEN))
PieDone == entry = "piE" /\ pieOut.st # "none"
PhotDone == entry = "phot" /\ photOut.st # "none"

\* C1: with the same conventions on both sides, converting a valid
\* heliocentric parameter set (finite values, tE > 0, non-zero parallax)
\* to the geocentric frame and converting the result back recovers
\* (t0, u0, tE, piEE, piEN), the sign of u0 included.
C1_TrajectoryRoundTrip ==
    ( /\ entry = "phot"
      /\ photBack.st # "none"
      /\ photArgs.in_frame = "helio"
      /\ PhotEnumsValid(photArgs)
      /\ photArgs.coord_in = photArgs.coord_out
      /\ photArgs.murel_in = photArgs.murel_out
      /\ AllFin(PhotNumbers(photArgs))
      /\ IsPos(photArgs.tE)
      /\ NonZeroPiE(photArgs) )
    => /\ photBack.st = "ok"
       /\ photBack.val = PhotTuple(photArgs)

C3_FrameFlip ==
    ( /\ PieDone
      /\ pieOut.st = "ok"
      /\ AllFin({pieOut.val[1], pieOut.val[2], pieOut.val[3]}) )
    => LET vIn == VtildeIn(pieArgs.piEE, pieArgs.piEN, pieArgs.tE,
                           Hypot(pieArgs.piEE, pieArgs.piEN))
           vOut == IF pieArgs.in_frame = "helio"
                   THEN <<Sub(Neg(vIn[1]), eph.vel[1]), Sub(Neg(vIn[2]), eph.vel[2])>>
                   ELSE <<Add(Neg(vIn[1]), eph.vel[1]), Add(Neg(vIn[2]), eph.vel[2])>>
           nIn == Hypot(vIn[1], vIn[2])
           nOut == Hypot(vOut[1], vOut[2])
           piE_out == Hypot(pieOut.val[1], pieOut.val[2])
       IN  /\ Mul(pieOut.val[3], nOut) = Mul(pieArgs.tE, nIn)
           /\ Mul(pieOut.val[1], nOut) = Neg(Mul(piE_out, vOut[1]))
           /\ Mul(pieOut.val[2], nOut) = Neg(Mul(piE_out, vOut[2]))

C3_Witness ==
    /\ PieDone
    /\ pieOut.st = "ok"
    /\ pieArgs.in_frame = "geo"
    /\ AllFin({pieOut.val[1], pieOut.val[2], pieOut.val[3]})
    /\ ~(IsZero(eph.vel[1]) /\ IsZero(eph.vel[2]))
    /\ pieOut.val[3] # pieArgs.tE

\* C4: every convert_piEvec_tE call that returns from finite inputs
\* preserves the parallax magnitude, and the output parallax that
\* convert_helio_geo_phot returns, divided by the input magnitude, is a
\* unit vector.
C4_MagnitudeInvariant ==
    /\ ( /\ PieDone
         /\ pieOut.st = "ok"
         /\ AllFin({pieArgs.piEE, pieArgs.piEN, pieArgs.tE}) )
       => Hypot(pieOut.val[1], pieOut.val[2]) = Hypot(pieArgs.piEE, pieArgs.piEN)
    /\ ( /\ PhotDone
         /\ photOut.st = "ok"
         /\ AllFin(PhotNumbers(photArgs)) )
       => LET piE == Hypot(photArgs.piEE, photArgs.piEN)
          IN  Hypot(Div(photOut.val[4], piE), Div(photOut.val[5], piE)) = One

\* C5: with piEE_in = piEN_in = 0 both converters raise, return nothing,
\* and have not divided by the parallax magnitude.
C5_ZeroParallaxRaises ==
    /\ (PieDone /\ IsZero(pieArgs.piEE) /\ IsZero(pieArgs.piEN))
       => /\ pieOut.st = "ValueError"
          /\ pieOut.val = <<>>
          /\ ~HasLogged(pieOut, "div_piE")
    /\ (PhotDone /\ IsZero(photArgs.piEE) /\ IsZero(photArgs.piEN))
       => /\ photOut.st = "ValueError"
          /\ photOut.val = <<>>
          /\ ~HasLogged(photOut, "div_piE")

C5_Witness ==
    /\ PhotDone
    /\ IsZero(photArgs.piEE) /\ IsZero(photArgs.piEN)
    /\ PhotEnumsValid(photArgs)
    /\ photArgs.murel_in = "LS"
    /\ photArgs.coord_in = "tb"
    /\ photOut.st = "ValueError"
    /\ HasLogged(photOut, "call_piEvec")

\* C6: an enum argument outside its set makes convert_helio_geo_phot raise
\* before anything else happens: no converter is called and the ephemeris
\* is not queried, whatever the other arguments.
C6_EnumsFirst ==
    (PhotDone /\ ~PhotEnumsValid(photArgs))
    => /\ photOut.st = "ValueError"
       /\ photOut.val = <<>>
       /\ photOut.log = <<>>

C6_Witness ==
    /\ PhotDone
    /\ photArgs.coord_out = BadName
    /\ IsZero(photArgs.piEE) /\ IsZero(photArgs.piEN)
    /\ photOut.st = "ValueError"

\* C7: a call with a NaN or infinite numeric argument raises and returns
\* no result, for each of the six functions.
C7_NonFiniteRejected ==
    /\ (PieDone /\ ~AllFin({pieArgs.piEE, pieArgs.piEN, pieArgs.tE}))
       => pieOut.st \notin {"ok"}
    /\ (PhotDone /\ ~AllFin(PhotNumbers(photArgs)))
       => photOut.st \notin {"ok"}
    /\ ( /\ entry = "tu"
         /\ rotOut.st # "none"
         /\ ~(IsDeg(rotArgs.alpha_deg) /\ IsFin(rotArgs.sgn)) )
       => /\ rotOut.st \notin {"ok"}
          /\ rotBack.st \notin {"ok"}
    /\ ( /\ entry = "ne"
         /\ rotOut.st # "none"
         /\ ~( /\ IsDeg(rotArgs.alpha_deg) /\ IsFin(rotArgs.sgn)
               /\ IsFin(rotArgs.mu_rel_E) /\ IsFin(rotArgs.mu_rel_N) ) )
       => /\ rotOut.st \notin {"ok"}
          /\ rotBack.st \notin {"ok"}

RotValid ==
    /\ IsFin(rotArgs.mu_rel_E) /\ IsFin(rotArgs.mu_rel_N)
    /\ ~(IsZero(rotArgs.mu_rel_E) /\ IsZero(rotArgs.mu_rel_N))
    /\ IsDeg(rotArgs.alpha_deg)
    /\ rotArgs.sgn \in Sgns

Orthonormal(R) == MatMul(R, Transpose(R)) = Eye2

\* C8: for a finite non-zero proper motion, a finite angle and sgn = +1 or
\* -1, rotation_xy_to_ne and rotation_ne_to_xy return a matrix R with
\* R * R^T = I; the internal-consistency error is not raised.
C8_Orthonormal ==
    (entry = "ne" /\ RotValid)
    => /\ rotOut.st # "none"
          => (rotOut.st = "ok" /\ Orthonormal(rotOut.val[1]))
       /\ rotBack.st # "none"
          => (rotBack.st = "ok" /\ Orthonormal(rotBack.val[1]))

C8_Witness ==
    /\ entry = "ne"
    /\ RotValid
    /\ rotBack.st = "ok"
    /\ rotArgs.sgn = Rat(-1, 1)
    /\ \A x \in MatEntries(rotOut.val[1]) : ~IsZero(x)

TestVectors == {<<Rat(1, 5), Rat(-7, 5)>>, <<One, Zero>>, <<Zero, One>>}

\* C9: rotation_xy_to_tu(alpha, sgn) times rotation_tu_to_xy(alpha, sgn) is
\* the identity for sgn = +1 or -1; rotation_ne_to_xy's matrix undoes
\* rotation_xy_to_ne's on every vector, and both return the same
\* diagnostics.
C9_InverseConsistency ==
    /\ ( /\ entry = "tu"
         /\ rotBack.st # "none"
         /\ IsDeg(rotArgs.alpha_deg)
         /\ rotArgs.sgn \in Sgns )
       => /\ rotOut.st = "ok" /\ rotBack.st = "ok"
          /\ MatMul(rotOut.val, rotBack.val) = Eye2
    /\ (entry = "ne" /\ rotBack.st # "none" /\ RotValid)
       => /\ rotOut.st = "ok" /\ rotBack.st = "ok"
          /\ \A v \in TestVectors :
                MatVec(rotBack.val[1], MatVec(rotOut.val[1], v)) = v
          /\ rotBack.val[2] = rotOut.val[2]

C9_Witness ==
    /\ entry = "tu"
    /\ rotBack.st = "ok"
    /\ rotArgs.sgn = One
    /\ \A x \in MatEntries(rotOut.val) : ~IsZero(x)
    /\ rotBack.val # rotOut.val

\* C10: with mu_rel_E = mu_rel_N = 0, rotation_xy_to_ne and
\* rotation_ne_to_xy raise the zero-vector error for every alpha_deg and
\* sgn and return neither a matrix nor diagnostics.
C10_ZeroMotionRaises ==
    (entry = "ne" /\ IsZero(rotArgs.mu_rel_E) /\ IsZero(rotArgs.mu_rel_N))
    => /\ rotOut.st # "none"
          => (rotOut.st = "RuntimeError_zero_mu" /\ rotOut.val = <<>>)
       /\ rotBack.st # "none"
          => (rotBack.st = "RuntimeError_zero_mu" /\ rotBack.val = <<>>)

C10_Witness ==
    /\ entry = "ne"
    /\ IsZero(rotArgs.mu_rel_E) /\ IsZero(rotArgs.mu_rel_N)
    /\ IsNaN(rotArgs.alpha_deg)
    /\ rotBack.st = "RuntimeError_zero_mu"

\* the parallax vector and the unit vector of the proper motion as lines
\* 100-116 leave them
PiEIn(a) == <<IF a.murel_in = "LS" THEN Neg(a.piEE) ELSE a.piEE,
              IF a.murel_in = "LS" THEN Neg(a.piEN) ELSE a.piEN>>
TauhatIn(a) == VDiv(PiEIn(a), Hypot(PiEIn(a)[1], PiEIn(a)[2]))
PhotValid(a) ==
    /\ PhotEnumsValid(a)
    /\ AllFin(PhotNumbers(a))
    /\ NonZeroPiE(a)
    /\ IsFin(Hypot(a.piEE, a.piEN))
SameSign(x, y) == (IsPos(x) /\ IsPos(y)) \/ (IsNeg(x) /\ IsNeg(y))

\* C19: the tau/beta sign convention is the same on input and output: the
\* impact vector built from a non-zero u0 and tauhat under coord_in = "tb"
\* is given the sign of u0 again by the coord_out = "tb" rule against the
\* same tauhat, and a "tb" to "tb" conversion with Earth's velocity and
\* displacement zero returns u0_out = u0_in.
C19_TauBetaConvention ==
    ( /\ PhotDone
      /\ PhotValid(photArgs)
      /\ photArgs.coord_in = "tb" /\ photArgs.coord_out = "tb"
      /\ ~IsZero(photArgs.u0) )
    => /\ SameSign(U0Out("tb", TauhatIn(photArgs),
                         VScale(AbsV(photArgs.u0),
                                U0hatIn("tb", photArgs.u0, PiEIn(photArgs)[1],
                                        PiEIn(photArgs)[2], TauhatIn(photArgs)))),
                   photArgs.u0)
       /\ ( /\ IsZero(eph.vel[1]) /\ IsZero(eph.vel[2])
            /\ IsZero(eph.pos[1]) /\ IsZero(eph.pos[2])
            /\ photOut.st = "ok" )
          => photOut.val[2] = photArgs.u0

\* C20: the input impact direction is one of the two unit vectors
\* perpendicular to tauhat_in.  With coord_in = "EN" it is
\* (-tauhatN, tauhatE) when u0_in * piEN_in < 0 and (tauhatN, -tauhatE)
\* when the product is > 0; when the product is zero it is
\* (-tauhatN, tauhatE) if u0_in * piEE_in > 0 and (tauhatN, -tauhatE)
\* otherwise.  With coord_in = "tb" it is (tauhatN, -tauhatE) if u0_in > 0
\* and (-tauhatN, tauhatE) otherwise.  piEE_in and piEN_in are the values
\* after the murel_in negation of lines 100-102.
C20_ImpactDirectionTable ==
    (PhotDone /\ PhotValid(photArgs))
    => LET pE == PiEIn(photArgs)[1]
           pN == PiEIn(photArgs)[2]
           tau == TauhatIn(photArgs)
           u0 == photArgs.u0
           rotPlus == <<Neg(tau[2]), tau[1]>>
           rotMinus == <<tau[2], Neg(tau[1])>>
           u0hat == U0hatIn(photArgs.coord_in, u0, pE, pN, tau)
       IN  /\ u0hat \in {rotPlus, rotMinus}
           /\ IsZero(Dot(u0hat, tau))
           /\ Hypot(u0hat[1], u0hat[2]) = One
           /\ photArgs.coord_in = "EN"
              => /\ IsNeg(Mul(u0, pN)) => u0hat = rotPlus
                 /\ IsPos(Mul(u0, pN)) => u0hat = rotMinus
                 /\ IsZero(Mul(u0, pN))
                    => /\ IsPos(Mul(u0, pE)) => u0hat = rotPlus
                       /\ ~IsPos(Mul(u0, pE)) => u0hat = rotMinus
           /\ photArgs.coord_in = "tb"
              => /\ IsPos(u0) => u0hat = rotMinus
                 /\ ~IsPos(u0) => u0hat = rotPlus

\* the tie-break decides: piEN_in is zero and u0_in * piEE_in > 0
C20_Witness ==
    /\ PhotDone /\ PhotValid(photArgs)
    /\ photOut.st = "ok"
    /\ photArgs.coord_in = "EN"
    /\ photArgs.murel_in = "LS"
    /\ IsZero(photArgs.piEN) /\ ~IsZero(photArgs.u0)
    /\ IsPos(Mul(photArgs.u0, PiEIn(photArgs)[1]))
    /\ U0hatIn("EN", photArgs.u0, PiEIn(photArgs)[1], PiEIn(photArgs)[2],
               TauhatIn(photArgs)) = <<Zero, TauhatIn(photArgs)[1]>>

\* what lines 104-159 compute for the call a: the converted parallax, the
\* unit vector of the output proper motion and the output impact vector
PiEvecOf(a) == convert_piEvec_tE(eph, PiEIn(a)[1], PiEIn(a)[2], a.tE, a.in_frame)
PiELen(a) == Hypot(PiEIn(a)[1], PiEIn(a)[2])
TauhatOut(a) == <<Div(PiEvecOf(a).val[1], PiELen(a)),
                  Div(PiEvecOf(a).val[2], PiELen(a))>>
U0vecCall(a) ==
    convert_u0vec_t0(eph,
        [t0par |-> a.t0par, t0_in |-> a.t0, u0_in |-> a.u0, tE_in |-> a.tE,
         tE_out |-> PiEvecOf(a).val[3], piE |-> PiELen(a),
         tauhat_in |-> TauhatIn(a),
         u0hat_in |-> U0hatIn(a.coord_in, a.u0, PiEIn(a)[1], PiEIn(a)[2],
                              TauhatIn(a)),
         tauhat_out |-> TauhatOut(a), in_frame |-> a.in_frame])
U0vecOut(a) == <<U0vecCall(a).val[2], U0vecCall(a).val[3]>>
CrossOut(a) == Sub(Mul(TauhatOut(a)[1], U0vecOut(a)[2]),
                   Mul(TauhatOut(a)[2], U0vecOut(a)[1]))
PhotReturned(a) ==
    /\ PhotDone /\ PhotValid(a)
    /\ photOut.st = "ok"
    /\ AllFin({photOut.val[i] : i \in 1..5})

\* C21: |u0_out| is the Euclidean norm of the output impact vector; with
\* coord_out = "EN" u0_out is negative exactly when the vector's East
\* component is negative; with coord_out = "tb" it is negative exactly when
\* tauhatE_out * u0_N - tauhatN_out * u0_E is negative, whatever the sign
\* of the East component.
C21_OutputSign ==
    PhotReturned(photArgs)
    => /\ AbsV(photOut.val[2]) = Hypot(U0vecOut(photArgs)[1], U0vecOut(photArgs)[2])
       /\ photArgs.coord_out = "EN"
          => (IsNeg(photOut.val[2]) <=> IsNeg(U0vecOut(photArgs)[1]))
       /\ photArgs.coord_out = "tb"
          => (IsNeg(photOut.val[2]) <=> IsNeg(CrossOut(photArgs)))

\* the East component is negative and the cross product is not
C21_Witness ==
    /\ PhotReturned(photArgs)
    /\ photArgs.coord_out = "tb"
    /\ IsNeg(U0vecOut(photArgs)[1])
    /\ IsPos(CrossOut(photArgs))
    /\ IsPos(photOut.val[2])
    /\ ~(IsZero(eph.vel[1]) /\ IsZero(eph.vel[2]))

NegatedIn(a) == [a EXCEPT !.murel_in = "SL", !.piEE = Neg(a.piEE),
                          !.piEN = Neg(a.piEN)]
NegatedOut(r) == [r EXCEPT !.val = <<r.val[1], r.val[2], r.val[3],
                                      Neg(r.val[4]), Neg(r.val[5])>>]

\* C22: for valid inputs a call with murel_in = "LS" on (piEE, piEN)
\* returns what the call with murel_in = "SL" on (-piEE, -piEN) returns,
\* and the result with murel_out = "LS" is the result with
\* murel_out = "SL" with piEE_out and piEN_out negated and t0_out, u0_out,
\* tE_out unchanged.
C22_MuRelConventions ==
    (PhotDone /\ PhotValid(photArgs))
    => /\ photArgs.murel_in = "LS"
          => photOut = convert_helio_geo_phot(eph, NegatedIn(photArgs))
       /\ (photArgs.murel_out = "LS" /\ photOut.st = "ok")
          => photOut = NegatedOut(convert_helio_geo_phot(eph,
                                     [photArgs EXCEPT !.murel_out = "SL"]))
       /\ (photArgs.murel_out = "LS" /\ photOut.st # "ok")
          => photOut = convert_helio_geo_phot(eph,
                          [photArgs EXCEPT !.murel_out = "SL"])

C22_Witness ==
    /\ PhotReturned(photArgs)
    /\ photArgs.murel_in = "LS" /\ photArgs.murel_out = "LS"
    /\ ~IsZero(photOut.val[4])
    /\ photOut # convert_helio_geo_phot(eph, [photArgs EXCEPT !.murel_in = "SL"])

U0vecIn(a) ==
    VScale(AbsV(a.u0), U0hatIn(a.coord_in, a.u0, PiEIn(a)[1], PiEIn(a)[2],
                               TauhatIn(a)))

\* C28: the East/North sign convention is the same on input and output:
\* for coord_in = "EN", a non-zero u0_in and piEN_in # 0, the East component
\* of the input impact vector |u0_in| * u0hat_in has the sign of u0_in, and
\* the coord_out = "EN" rule applied to that vector returns u0_in.
C28_EastNorthConvention ==
    ( /\ PhotDone /\ PhotValid(photArgs)
      /\ photArgs.coord_in = "EN"
      /\ ~IsZero(photArgs.u0)
      /\ ~IsZero(photArgs.piEN) )
    => /\ SameSign(U0vecIn(photArgs)[1], photArgs.u0)
       /\ U0Out("EN", TauhatIn(photArgs), U0vecIn(photArgs)) = photArgs.u0

C28_Witness ==
    /\ PhotDone /\ PhotValid(photArgs)
    /\ photOut.st = "ok"
    /\ photArgs.coord_in = "EN" /\ photArgs.murel_in = "LS"
    /\ IsNeg(photArgs.u0) /\ IsPos(photArgs.piEN) /\ ~IsZero(photArgs.piEE)
    /\ IsNeg(U0vecIn(photArgs)[1])
    /\ U0Out("EN", TauhatIn(photArgs), U0vecIn(photArgs)) = photArgs.u0

\* the output frame's relative velocity of lines 134-140
VtildeOutOf(a) ==
    VtildeOut(VtildeIn(a.piEE, a.piEN, a.tE, Hypot(a.piEE, a.piEN)),
              earth_projected_velocity(eph), a.in_frame)

\* C25: for finite inputs with non-zero parallax convert_piEvec_tE returns
\* no NaN and no infinity: when tE_in is zero or the output frame's
\* relative velocity has zero length it raises.
C25_NoNonFiniteResult ==
    ( /\ PieDone
      /\ pieArgs.in_frame \in FrameNames
      /\ AllFin({pieArgs.piEE, pieArgs.piEN, pieArgs.tE})
      /\ NonZeroPiE(pieArgs) )
    => /\ pieOut.st = "ok"
          => \A i \in 1..3 : IsFin(pieOut.val[i]) \/ IsIrr(pieOut.val[i])
       /\ IsZero(pieArgs.tE) => pieOut.st # "ok"
       /\ ( /\ ~IsZero(pieArgs.tE)
            /\ IsZero(VtildeOutOf(pieArgs)[1])
            /\ IsZero(VtildeOutOf(pieArgs)[2]) )
          => pieOut.st # "ok"

U0vecDone == entry = "u0vec" /\ u0vecOut.st # "none"

\* C26: convert_u0vec_t0 called with in_frame outside {helio, geo} raises
\* before any computation, in particular before the ephemeris is queried
\* for the parallax displacement at t0par, and returns nothing.
C26_BadFrameRaisesFirst ==
    (U0vecDone /\ u0vecArgs.in_frame \notin FrameNames)
    => /\ u0vecOut.st = "ValueError"
       /\ u0vecOut.val = <<>>
       /\ ~HasLogged(u0vecOut, "ephem_pos")

(***************************************************************************)
(* Properties of the objects (ModelSpec)                                   *)
(***************************************************************************)
MemoCalls == {i \in DOMAIN hist : hist[i].op = "_piE_components"}
Fresh(key) == piE_values(model, eph, key)

\* C11: the projection memo of a model is filled lazily and never
\* invalidated: a key is in _piE_cache only if a call for it has returned
\* successfully, and every successful call for a key returned the tuple the
\* memo holds for it, which is the tuple of the first such call, whatever
\* was assigned to the model's scalars in between.
C11_MemoNeverInvalidated ==
    entry = "memo"
    => /\ \A k \in DOMAIN model.piE_cache :
             \E i \in MemoCalls : hist[i].key = k /\ hist[i].st = "ok"
       /\ \A i \in MemoCalls :
             hist[i].st = "ok"
             => /\ hist[i].key \in DOMAIN model.piE_cache
                /\ model.piE_cache[hist[i].key] = hist[i].val
       /\ \A i \in MemoCalls, j \in MemoCalls :
             (i < j /\ hist[i].key = hist[j].key /\ hist[i].st = "ok")
             => (hist[j].st = "ok" /\ hist[j].val = hist[i].val)

C11_Witness ==
    /\ entry = "memo"
    /\ Len(hist) = MaxCalls
    /\ hist[1].key = "heliocentric" /\ hist[1].st = "ok"
    /\ hist[MaxCalls].key = "heliocentric" /\ hist[MaxCalls].st = "ok"
    /\ threads[1].fn = "piEN"
    /\ Fresh("heliocentric").st = "ok"
    /\ Fresh("heliocentric").val # model.piE_cache["heliocentric"]

\* C12: with the model's parameters fixed, whatever the interleaving of the
\* threads' _piE_components calls, every call that has returned gave its
\* caller what a call on its own gives (the same tuple, or the same
\* exception), every key a call returned for is in the memo, and every key
\* in the memo holds that tuple.
C12_ParallelCalls ==
    entry = "threads"
    => /\ \A i \in MemoCalls :
             /\ hist[i].st = Fresh(hist[i].key).st
             /\ hist[i].val = Fresh(hist[i].key).val
             /\ hist[i].st = "ok" => hist[i].key \in DOMAIN model.piE_cache
       /\ \A k \in DOMAIN model.piE_cache :
             Fresh(k).st = "ok" /\ model.piE_cache[k] = Fresh(k).val
       /\ \A t \in Threads :
             threads[t].pc = "done"
             => /\ threads[t].ret.st = Fresh(threads[t].key).st
                /\ threads[t].ret.val = Fresh(threads[t].key).val

\* two threads both missed the same key, both computed and both stored
C12_Witness ==
    /\ entry = "threads"
    /\ threads[1].pc = "done" /\ threads[2].pc = "done"
    /\ threads[1].key = "heliocentric" /\ threads[2].key = "heliocentric"
    /\ threads[1].values # <<>> /\ threads[2].values # <<>>
    /\ threads[1].values # <<Get(model.scalars, "piEE", Zero),
                             Get(model.scalars, "piEN", Zero),
                             Get(model.scalars, "tE", Zero)>>

ToPackageCalls == {i \in DOMAIN hist : hist[i].op = "to_package"}
SourceKey ==
    handle_key(convObj.source_package, Get(model.meta, "observer", None),
               Get(model.meta, "origin", None))

\* C13 as stated: two to_package calls with the same (package, observer,
\* origin) return the same PackageHandle object, the adapter's dump is
\* invoked at most once per key, and never for the key of the source handle.
C13_HandleCacheAll ==
    entry = "conv"
    => /\ \A i \in ToPackageCalls, j \in ToPackageCalls :
             (hist[i].key = hist[j].key /\ hist[i].st = "ok" /\ hist[j].st = "ok")
             => hist[i].val = hist[j].val
       /\ \A i \in ToPackageCalls, j \in ToPackageCalls :
             (hist[i].key = hist[j].key /\ hist[i].dumped /\ hist[j].dumped)
             => i = j
       /\ \A i \in ToPackageCalls : hist[i].key = SourceKey => ~hist[i].dumped

\* C13 amended: two to_package calls with the same key that return, return
\* the same PackageHandle object; the adapter's dump returns a payload at
\* most once per key, and after it has, it is not invoked for that key
\* again; it is never invoked for the key of the source handle.  (A dump
\* that raises caches nothing and is invoked again by the next call.)
C13_HandleCache ==
    entry = "conv"
    => /\ \A i \in ToPackageCalls, j \in ToPackageCalls :
             (hist[i].key = hist[j].key /\ hist[i].st = "ok" /\ hist[j].st = "ok")
             => hist[i].val = hist[j].val
       /\ \A i \in ToPackageCalls, j \in ToPackageCalls :
             ( /\ hist[i].key = hist[j].key /\ i < j
               /\ hist[i].dumped /\ hist[i].st = "ok" )
             => (~hist[j].dumped /\ hist[j].st = "ok")
       /\ \A i \in ToPackageCalls : hist[i].key = SourceKey => ~hist[i].dumped

\* the same key asked for twice, another key in between
C13_Witness ==
    /\ entry = "conv"
    /\ Len(hist) = 3
    /\ hist[1].key = hist[3].key /\ hist[2].key # hist[1].key
    /\ hist[1].key[1] = hist[2].key[1]
    /\ hist[1].dumped /\ hist[1].st = "ok"
    /\ hist[2].dumped /\ hist[2].st = "ok"
    /\ hist[3].val = hist[1].val

\* C14: conv.<package> is the handle that the most recent returning
\* to_package call for that package returned, and before any to_package
\* call conv.<source_package> is the handle that wraps the source
\* parameters.
C14_AliasMostRecent ==
    entry = "conv"
    => /\ hist = <<>>
          => /\ getattr(convObj, convObj.source_package) = 1
             /\ convObj.objs[1].package = convObj.source_package
       /\ \A i \in ToPackageCalls :
             ( /\ hist[i].st = "ok"
               /\ \A j \in ToPackageCalls :
                     (j > i /\ hist[j].key[1] = hist[i].key[1]) => hist[j].st # "ok" )
             => getattr(convObj, hist[i].key[1]) = hist[i].val

LastCall == hist[Len(hist)]
Observed(op) == entry = "build" /\ Len(hist) = 2 /\ hist[2].op = op
Constructed(op) == entry = "build" /\ Len(hist) >= 1 /\ hist[1].op = op

\* C15: a BagleAdapter.dump that returns serializes the model as it is when
\* the call is made: the payload's scalars are the model's scalars at that
\* time (the values assigned after the load included), its meta.observer is
\* the requested observer, its meta.origin the requested origin or, without
\* one, the model's, and every series of the model is in the payload with
\* its frame metadata.
C15_DumpSerializesModel ==
    (Observed("dump") /\ LastCall.package = "bagle" /\ LastCall.st = "ok")
    => /\ LastCall.val["scalars"] = LastCall.at.scalars
       /\ LastCall.val["meta"]["observer"] = LastCall.observer
       /\ LastCall.val["meta"]["origin"] =
             (IF LastCall.origin # None THEN LastCall.origin
              ELSE Get(LastCall.at.meta, "origin", None))
       /\ \A name \in DOMAIN LastCall.at.series :
             /\ "series" \in DOMAIN LastCall.val
             /\ name \in DOMAIN LastCall.val["series"]
             /\ \A i \in DOMAIN FrameAttrs :
                   LastCall.val["series"][name][FrameAttrs[i]] =
                      LastCall.at.series[name][FrameAttrs[i]]

C15_Witness ==
    /\ Observed("dump") /\ LastCall.package = "bagle" /\ LastCall.st = "ok"
    /\ hist[1].op = "load" /\ hist[1].package = "bagle"
    /\ hist[1].params = TestPayload
    /\ LastCall.origin = None
    /\ LastCall.val["scalars"]["t0"] # TestPayload.scalars["t0"]
    /\ LastCall.val["series"]["source_track"].coords = "lens_xy"

RequiredMissing(params) ==
    IF "scalars" \in DOMAIN params /\ DOMAIN params["scalars"] # {}
    THEN \E k \in {"t0", "tE", "u0_amp", "u0_sign"} : k \notin DOMAIN params["scalars"]
    ELSE \E k \in {"t0", "tE", "u0_amp", "u0_sign"} : k \notin DOMAIN params

\* C16: BagleAdapter.load raises AdapterError and leaves no model (and so
\* no package-cache entry) whenever one of t0, tE, u0_amp, u0_sign is
\* missing from the payload's scalars mapping or, when the payload has no
\* non-empty scalars mapping, from its top-level keys.
C16_LoadRequiresScalars ==
    ( /\ Constructed("load") /\ hist[1].package = "bagle"
      /\ RequiredMissing(hist[1].params) )
    => /\ hist[1].st = "AdapterError"
       /\ hist[1].val = <<>>
       /\ ~HasModel

\* the scalars mapping lacks tE, which the top level has
C16_Witness ==
    /\ Constructed("load") /\ hist[1].package = "bagle"
    /\ hist[1].observer = "earth"
    /\ "scalars" \in DOMAIN hist[1].params
    /\ DOMAIN hist[1].params["scalars"] = {"t0"}
    /\ "tE" \in DOMAIN hist[1].params
    /\ hist[1].st = "AdapterError"
    /\ ~HasModel

ValidScalars(sc) ==
    /\ {"t0", "tE", "u0_amp", "u0_sign"} \subseteq DOMAIN sc
    /\ sc["u0_sign"] \in {Rat(-1, 1), Rat(1, 1)}

\* C17: a model exists only with scalars that contain t0, tE, u0_amp and
\* u0_sign with u0_sign -1 or +1: a construction, a load or a copy that
\* returns, returns such a model; a construction from other scalars raises
\* and leaves no model; and the model is still such a model after
\* add_series, add_frames, cache_package, get_series, copy and the dumps.
C17_CanonicalScalars ==
    /\ (entry \in {"memo", "threads"} /\ HasModel) => ValidScalars(model.scalars)
    /\ entry = "build"
    => /\ HasModel => ValidScalars(model.scalars)
       /\ \A i \in DOMAIN hist :
             hist[i].op \in {"load", "BaseModel", "copy"}
             => IF hist[i].st = "ok" THEN ValidScalars(hist[i].val.scalars)
                ELSE hist[i].val = <<>> /\ (i = 1 => ~HasModel)
       /\ ( /\ Len(hist) >= 1 /\ hist[1].op = "BaseModel"
            /\ ~ValidScalars(Get(hist[1].params, "scalars", EmptyDict)) )
          => hist[1].st = "ValueError"
       /\ ( /\ Len(hist) >= 1 /\ hist[1].op = "load"
            /\ ~ValidScalars(Get(hist[1].params, "scalars", EmptyDict))
            /\ ~ValidScalars(hist[1].params) )
          => hist[1].st \in {"ValueError", "AdapterError"}

C17_Witness ==
    /\ Constructed("BaseModel")
    /\ "scalars" \in DOMAIN hist[1].params
    /\ {"t0", "tE", "u0_amp", "u0_sign"} \subseteq DOMAIN hist[1].params["scalars"]
    /\ IsZero(hist[1].params["scalars"]["u0_sign"])
    /\ hist[1].st = "ValueError"
    /\ ~HasModel

Given(sel) == {FrameAttrs[i] : i \in {j \in DOMAIN FrameAttrs : sel[FrameAttrs[j]] # None}}
Differing(series, sel) == {a \in Given(sel) : series[a] # sel[a]}

\* C18: get_series returns the stored series exactly when the name exists,
\* at least one selector is given and every given selector equals the
\* stored value; with no selector it raises the validation error that asks
\* for explicit frame metadata, and with a mismatch the validation error
\* that lists each mismatching selector once, with the requested and the
\* stored value.
C18_GetSeries ==
    (Observed("get_series") /\ LastCall.name \in DOMAIN LastCall.at.series)
    => /\ LastCall.res.st = "ok"
          <=> ( /\ Given(LastCall.sel) # {}
                /\ Differing(LastCall.at.series[LastCall.name], LastCall.sel) = {} )
       /\ LastCall.res.st = "ok"
          => LastCall.res.val = LastCall.at.series[LastCall.name]
       /\ LastCall.res.st # "ok" => LastCall.res.st = "ValueError"
       /\ Given(LastCall.sel) = {}
          => LastCall.res.msg = "requires explicit frame metadata"
       /\ (LastCall.res.st # "ok" /\ Given(LastCall.sel) # {})
          => /\ {LastCall.res.msg[i] : i \in DOMAIN LastCall.res.msg} =
                  {<<a, LastCall.sel[a], LastCall.at.series[LastCall.name][a]>> :
                     a \in Differing(LastCall.at.series[LastCall.name], LastCall.sel)}
             /\ Len(LastCall.res.msg) =
                  Cardinality(Differing(LastCall.at.series[LastCall.name],
                                        LastCall.sel))

C18_Witness ==
    /\ Observed("get_series") /\ LastCall.name = "source_track"
    /\ LastCall.sel.observer = "roman_l2"
    /\ LastCall.sel.coords = "lens_xy"
    /\ LastCall.sel.projection = "geocentric"
    /\ LastCall.res.st = "ValueError"
    /\ Len(LastCall.res.msg) = 3
    /\ LastCall.res.msg[3] = <<"projection", "geocentric", None>>

\* C23: the projection memo is transparent: whenever a piE /
\* _piE_components call returns, after any interleaving of assignments to
\* the model's scalars with such calls, it returns what a fresh computation
\* from the model's parameters at that time gives.
C23_MemoTransparent ==
    [][ \A t \in Threads :
           ( /\ entry = "memo"
             /\ threads[t].pc \in {"hit", "store"}
             /\ threads'[t].pc = "done" )
           => /\ threads'[t].ret.st = Fresh(threads[t].key).st
              /\ threads'[t].ret.val =
                    piE_wrap(threads[t].fn, Fresh(threads[t].key).val) ]_vars

ConverterDumps == {i \in DOMAIN hist : hist[i].op = "dump" /\ hist[i].st = "ok"}

\* C24: the payload that Converter.dump(package, observer, origin) returns
\* carries the scalars the model has when the call is made, after any
\* interleaving of assignments to conv.model.scalars with dump and
\* to_package calls, also when the handle of that key was created before
\* the assignment.
C24_ConverterFollowsModel ==
    entry = "conv"
    => \A i \in ConverterDumps : hist[i].val["scalars"] = hist[i].at.scalars

\* C27: failed operations leave no partial state: a _piE_components call
\* that raises leaves the model, its _piE_cache included, as it was, and a
\* to_package or dump call of the converter that raises leaves the handle
\* table, the package aliases and the model as they were, so that every
\* later call does what it would have done without the failed call.
C27_NoPartialState ==
    [][ /\ \A t \in Threads :
              ( /\ entry \in {"memo", "threads"}
                /\ threads[t].pc = "miss"
                /\ threads'[t].pc = "done" )
              => /\ threads'[t].ret.st # "ok"
                 /\ threads'[t].ret.val = <<>>
                 /\ model' = model
        /\ ( /\ entry = "conv"
             /\ Len(hist') = Len(hist) + 1
             /\ hist'[Len(hist')].st # "ok" )
           => /\ convObj' = convObj
              /\ model' = model
              /\ \A package \in ConvPackages, observer \in ConvObservers,
                    origin \in ConvOrigins :
                    to_package(convObj', model', package, observer, origin) =
                       to_package(convObj, model, package, observer, origin) ]_vars

\* an unsupported observer, then the same package with a supported one
C27_Witness ==
    /\ entry = "conv"
    /\ Len(hist) = 2
    /\ hist[1].op = "to_package" /\ hist[1].st = "AdapterError"
    /\ hist[1].key = <<"mulensmodel", "roman_l2", None>>
    /\ hist[2].op = "to_package" /\ hist[2].st = "ok"
    /\ hist[2].key = <<"mulensmodel", "earth", None>>
    /\ hist[2].dumped
    /\ Len(convObj.objs) = 2
    /\ getattr(convObj, "mulensmodel") = 2

AdapterDumps == {i \in DOMAIN hist : hist[i].op = "dump" /\ hist[i].st = "ok"}
OriginWritten(package, payload) ==
    IF package = "vbm" THEN Get(payload, "origin", None)
    ELSE Get(payload["meta"], "origin", None)

\* C29: the origin that an adapter's dump writes into its payload is absent
\* or None or one of that adapter's supported_origins, for the four
\* adapters, also when no origin is passed and the origin is taken from the
\* model's meta.
C29_DumpedOriginSupported ==
    entry = "build"
    => \A i \in AdapterDumps :
          \/ OriginWritten(hist[i].package, hist[i].val) = None
          \/ OriginWritten(hist[i].package, hist[i].val)
                \in supported_origins(hist[i].package)

Canonical(m) == <<m.scalars, m.meta, m.series, m.frames>>
ExceptT0(scalars) == [k \in DOMAIN scalars \ {"t0"} |-> scalars[k]]
\* the model as the i-th call of the converter left it
ConvAfter(i) == IF i < Len(hist) THEN hist[i + 1].at ELSE model

\* C30: dumping does not alter the canonical model: an adapter's dump and
\* the converter's to_package and dump leave the model's scalars, meta,
\* series and frames as they were, a dump changes package_cache only, and
\* only BagleAdapter.dump does; and a later assignment to the scalars of a
\* returned payload does not change the model.
C30_DumpLeavesModel ==
    /\ (entry = "build" /\ Len(hist) >= 2 /\ hist[2].op = "dump")
       => /\ Canonical(model) = Canonical(hist[2].at)
          /\ model.piE_cache = hist[2].at.piE_cache
          /\ (hist[2].package # "bagle" \/ hist[2].st # "ok")
             => (Len(hist) = 2 => model = hist[2].at)
          /\ (hist[2].package = "bagle" /\ hist[2].st = "ok" /\ Len(hist) = 2)
             => model.package_cache =
                   Put(hist[2].at.package_cache, "bagle", hist[2].val)
    /\ entry = "conv"
       => \A i \in DOMAIN hist :
             /\ ExceptT0(ConvAfter(i).scalars) = ExceptT0(hist[i].at.scalars)
             /\ ConvAfter(i).meta = hist[i].at.meta
             /\ ConvAfter(i).series = hist[i].at.series
             /\ ConvAfter(i).frames = hist[i].at.frames
    /\ (entry = "build" /\ Len(hist) = 3 /\ hist[3].op = "payload_set")
       => model = hist[3].at

=============================================================================
